---- MODULE Spec2Model ----
(***************************************************************************)
(* A model of kurisu's reactor core (src/kurisu/event_loop.hpp):           *)
(* Channel + Poller, TimerQueue, EventLoop, EventLoopThread and            *)
(* EventLoopThreadPool.                                                    *)
(*                                                                         *)
(* The module holds several specifications over one set of variables:      *)
(*   SpecPoller  the Channel/Poller registration state machine             *)
(*   SpecTimer   the TimerQueue on the loop thread                         *)
(*   Spec        one EventLoop with its owner thread and other threads     *)
(*   SpecLive    Spec with the wakeup as the only event, with the          *)
(*               scheduler's fairness                                      *)
(*   SpecAffinity  tasks, timers and channel operations from any thread    *)
(*   SpecThread  an EventLoopThread: start(), Loop() and the destructor,   *)
(*               with the scheduler's fairness                             *)
(*   SpecDispatch  Channel::RunCallback on one channel                     *)
(*   SpecSlot    EventLoop objects and the thread-local slot               *)
(*   SpecPool    an EventLoopThreadPool and its round-robin cursor         *)
(*   SpecActive  one loop iteration dispatching several user channels      *)
(* A specification leaves the variables of the other parts unchanged.      *)
(***************************************************************************)
EXTENDS Integers, Sequences, FiniteSets, TLC

(***************************************************************************)
(* Channel and Poller                                                      *)
(***************************************************************************)

VARIABLES
    m_events,    \* Channel::m_events, per channel: the registered interest
    m_status,    \* Channel::m_status, per channel: k_New, k_Added, k_Deleted
    m_channels,  \* Poller::m_channels: fd -> channel (NoChannel: no entry)
    kernel,      \* the epoll instance: fd -> its registration (NoReg: none)
    aborted,     \* the process died in LOG_FATAL / LOG_SYSFATAL
    chanOp,      \* history: the last Channel operation, <<name, channel>>
    roundTrip,   \* history: how far a channel is through OnReading,
                 \* OffReading, OnReading, and the status it started from
    repeated     \* history: the last operation updated the channel that the
                 \* operation before it had updated, with the same interest

chanVars == <<m_events, m_status, m_channels, kernel, aborted, chanOp,
              roundTrip, repeated>>

\* TimerQueue, the timers and the timerfd
VARIABLES
    clock,            \* the time (Timestamp::now()), in ticks
    nextTimer,        \* the next Timer to be constructed (its identity)
    m_runtime,        \* Timer::m_runtime, per timer (0 when no such object)
    m_interval,       \* Timer::m_interval, per timer (0: one-shot)
    m_timers,         \* TimerQueue::m_timers: entries [when, id, own], keyed
                      \* by (when, id); own = FALSE is a null unique_ptr
    m_cancelledSoon,  \* TimerQueue::m_cancelledSoon
    runningCallback,  \* TimerQueue::runningCallback
    tfdArmed,         \* the timerfd's setting: {} disarmed, {t} armed for t
                      \* (t <= clock: expired and not yet read)
    tfdActive,        \* the timerfd channel is in the active list of the
                      \* current poll and not yet dispatched
    hpc,              \* HandleTimerfd: "idle" or "run" (running the batch)
    timeout,          \* HandleTimerfd's local vector of expired timers
    now,              \* HandleTimerfd's local Timestamp now (kept after the
                      \* handler returned, as history)
    ignored,          \* history: the timers for which the last reset() logged
                      \* "a timeout timer was ignored"
    cancelled,        \* history: the timers for which a cancel was processed
                      \* while their callback was not executing
    tIdx,             \* the next element of timeout to run
    selfCancelled,    \* history: repeating timers whose callback cancelled
                      \* their own TimerID
    tqDone            \* history: the TimerQueue operation the last step
                      \* completed at top level ("add", "cancel", "handle")

timerVars == <<clock, nextTimer, m_runtime, m_interval, m_timers,
               m_cancelledSoon, runningCallback, tfdArmed, tfdActive, hpc,
               timeout, now, ignored, cancelled, tIdx, selfCancelled, tqDone>>

\* EventLoop, its owner thread and the other threads
VARIABLES
    lpc,                 \* where the loop's thread is (see LoopBody)
    m_looping,           \* EventLoop::m_looping
    m_quit,              \* EventLoop::m_quit
    m_runningCallback,   \* EventLoop::m_runningCallback
    m_runningExtraFunc,  \* EventLoop::m_runningExtraFunc
    m_loopNum,           \* EventLoop::m_loopNum
    wakeCnt,             \* the counter of the eventfd m_wakeUpfd
    m_ExtraFuncs,        \* EventLoop::m_ExtraFuncs (guarded by m_mu)
    m_activeChannels,    \* EventLoop::m_activeChannels
    actIdx,              \* loop(): the next active channel to dispatch
    functors,            \* RunExtraFunc's local vector
    fnIdx,               \* RunExtraFunc: the next functor to run
    stack,               \* the callbacks and tasks executing on the loop's
                         \* thread, innermost last (0: a channel's callback)
    tpc,                 \* per other thread: "idle", or what it has yet to
                         \* do ("wake": AddExtraFunc's wakeup, "quitWake":
                         \* quit's wakeup)
    ioReady,             \* the fd of channel c3 is readable
    tasks,               \* history: the tasks submitted so far, in order of
                         \* submission
    overtaken,           \* history: <<i, j>> for every task i that had not
                         \* started when a task j submitted later started
    overlapped,          \* history: tasks that started while another task
                         \* was executing
    ranOn,               \* history: <<what, thread>> for every callback or
                         \* task executed and every mutation of the timer
                         \* map or the poller's table
    pollsAfterQuit       \* history: polls that returned after quit() was
                         \* called inside the loop

loopVars == <<lpc, m_looping, m_quit, m_runningCallback, m_runningExtraFunc,
              m_loopNum, wakeCnt, m_ExtraFuncs, m_activeChannels, actIdx,
              functors, fnIdx, stack, tpc, ioReady, tasks, overtaken,
              overlapped, ranOn, pollsAfterQuit>>

\* EventLoopThread
VARIABLES
    m_loop,     \* EventLoopThread::m_loop: "null" or "loop"
    m_exiting,  \* EventLoopThread::m_exiting
    spc,        \* where the thread calling start() is
    dpc,        \* where the thread running ~EventLoopThread is ("segv": it
                \* called quit() through a null pointer)
    loopObj,    \* Loop()'s stack-allocated EventLoop: "none", "alive",
                \* "destroyed"
    uaf         \* history: the destructor used a destroyed EventLoop

eltVars == <<m_loop, m_exiting, spc, dpc, loopObj, uaf>>

\* Channel::RunCallback on one channel
VARIABLES
    m_revents,    \* Channel::m_revents: the ready mask, the set of its bits
    m_tied,       \* Channel::m_tied
    tieAlive,     \* the object that Channel::m_tie refers to is alive
    hasCallback,  \* the callbacks that are set (non-empty std::function)
    rpc,          \* where RunCallback is: "idle", the if statement of
                  \* RunCallbackWithGuard it has reached ("close", "error",
                  \* "read", "write"), "done" after RunCallbackWithGuard
                  \* returned, "skipped" after the tie was found dead
    fired         \* history: the callbacks the last RunCallback invoked, in
                  \* the order of the calls

dispVars == <<m_revents, m_tied, tieAlive, hasCallback, rpc, fired>>

\* EventLoop objects and detail::t_loopOfThisThread
VARIABLES
    t_loopOfThisThread,  \* per thread: the thread-local slot, NoLoop or the
                         \* EventLoop it points to
    loopState,           \* per EventLoop object: "none" (not constructed),
                         \* "alive", "destroyed"
    m_threadID,          \* EventLoop::m_threadID, per EventLoop object
    fatal,               \* the process died in LOG_FATAL
    slotOp               \* history: the last operation, <<name, thread>>

slotVars == <<t_loopOfThisThread, loopState, m_threadID, fatal, slotOp>>

\* EventLoopThreadPool
VARIABLES
    m_thrdNum,  \* EventLoopThreadPool::m_thrdNum
    m_started,  \* EventLoopThreadPool::m_started
    m_next,     \* EventLoopThreadPool::m_next
    m_loops,    \* EventLoopThreadPool::m_loops: the worker loops in creation
                \* order
    calls,      \* history: the number of GetNextLoop calls since start()
    returned    \* history: what the last GetNextLoop call returned

poolVars == <<m_thrdNum, m_started, m_next, m_loops, calls, returned>>

\* EventLoop::loop dispatching the active channels of user fds
VARIABLES
    readyFds,  \* the user fds that are readable
    current    \* the channel whose RunCallback loop() called last

actVars == <<readyFds, current>>

\* the parts that the poller, the timer queue, the loop and the loop's thread
\* leave alone
partVars == <<dispVars, slotVars, poolVars, actVars>>

\* what the operations of each part leave unchanged
otherThanChan == <<timerVars, loopVars, eltVars, partVars>>
otherThanTimer == <<chanVars, loopVars, eltVars, partVars>>

\* Poller::k_New, k_Added, k_Deleted
k_New == -1
k_Added == 1
k_Deleted == 2

\* Channel::k_NoneEvent, k_ReadEvent, k_WriteEvent: a mask is the set of its bits
k_NoneEvent == {}
k_ReadEvent == {"IN", "PRI"}
k_WriteEvent == {"OUT"}

\* The channels of one loop: the loop's own two (the wakeup channel over the
\* eventfd, the TimerQueue's channel over the timerfd) and three channels of
\* external owners; c1 and c2 are two Channel objects over the same fd number.
OwnChannels == {"wake", "tfd"}
UserChannels == {"c1", "c2", "c3"}
Channels == OwnChannels \cup UserChannels

\* Channel::m_fd (immutable)
FdOf(channel) ==
    CASE channel = "wake" -> 3
      [] channel = "tfd" -> 5
      [] channel = "c1" -> 6
      [] channel = "c2" -> 6
      [] channel = "c3" -> 7

Fds == {FdOf(c) : c \in Channels}

NoChannel == "none"
NoReg == [ptr |-> NoChannel, events |-> {}]

\* epoll_ctl(2): ADD fails with EEXIST on a registered fd, MOD and DEL fail
\* with ENOENT on an fd that is not registered.
EpollCtlFails(operation, fd) ==
    IF operation = "ADD" THEN kernel[fd] # NoReg ELSE kernel[fd] = NoReg

\* mutant: EPOLL_CTL_DEL leaves the fd registered
Poller_update_DelKeeps(operation, channel, ev) ==
    LET fd == FdOf(channel) IN
    IF EpollCtlFails(operation, fd)
    THEN /\ kernel' = kernel
         /\ aborted' = (operation # "DEL")
    ELSE /\ kernel' = [kernel EXCEPT ![fd] =
                          IF operation = "DEL" THEN kernel[fd]
                          ELSE [ptr |-> channel, events |-> ev]]
         /\ aborted' = FALSE

\* Poller::update: one epoll_ctl; a failed DEL is logged, a failed ADD or MOD
\* is LOG_SYSFATAL.
Poller_update(operation, channel, ev) ==
    LET fd == FdOf(channel) IN
    IF EpollCtlFails(operation, fd)
    THEN /\ kernel' = kernel
         /\ aborted' = (operation # "DEL")
    ELSE /\ kernel' = [kernel EXCEPT ![fd] =
                          IF operation = "DEL" THEN NoReg
                          ELSE [ptr |-> channel, events |-> ev]]
         /\ aborted' = FALSE

\* mutant: an Added channel whose interest became empty is removed from epoll
\* but keeps status Added
Poller_UpdateChannel_KeepsAdded(channel, ev) ==
    LET status == m_status[channel]
        fd == FdOf(channel)
    IN  IF status = k_New \/ status = k_Deleted
        THEN /\ m_channels' = IF status = k_New
                              THEN [m_channels EXCEPT ![fd] = channel]
                              ELSE m_channels
             /\ m_status' = [m_status EXCEPT ![channel] = k_Added]
             /\ Poller_update("ADD", channel, ev)
        ELSE IF ev = k_NoneEvent
        THEN /\ Poller_update("DEL", channel, ev)
             /\ UNCHANGED <<m_status, m_channels>>
        ELSE /\ Poller_update("MOD", channel, ev)
             /\ UNCHANGED <<m_status, m_channels>>

\* mutant: SetStatus(k_Deleted) is done after every update of an Added
\* channel, not only when its interest is empty
Poller_UpdateChannel_ModMarksDeleted(channel, ev) ==
    LET status == m_status[channel]
        fd == FdOf(channel)
    IN  IF status = k_New \/ status = k_Deleted
        THEN /\ m_channels' = IF status = k_New
                              THEN [m_channels EXCEPT ![fd] = channel]
                              ELSE m_channels
             /\ m_status' = [m_status EXCEPT ![channel] = k_Added]
             /\ Poller_update("ADD", channel, ev)
        ELSE /\ Poller_update(IF ev = k_NoneEvent THEN "DEL" ELSE "MOD",
                              channel, ev)
             /\ m_status' = [m_status EXCEPT ![channel] = k_Deleted]
             /\ UNCHANGED m_channels

\* mutant: a Deleted channel is put back into epoll but stays Deleted
Poller_UpdateChannel_ReaddKeepsDeleted(channel, ev) ==
    LET status == m_status[channel]
        fd == FdOf(channel)
    IN  IF status = k_New \/ status = k_Deleted
        THEN /\ m_channels' = IF status = k_New
                              THEN [m_channels EXCEPT ![fd] = channel]
                              ELSE m_channels
             /\ m_status' = IF status = k_New
                            THEN [m_status EXCEPT ![channel] = k_Added]
                            ELSE m_status
             /\ Poller_update("ADD", channel, ev)
        ELSE IF ev = k_NoneEvent
        THEN /\ Poller_update("DEL", channel, ev)
             /\ m_status' = [m_status EXCEPT ![channel] = k_Deleted]
             /\ UNCHANGED m_channels
        ELSE /\ Poller_update("MOD", channel, ev)
             /\ UNCHANGED <<m_status, m_channels>>

\* Poller::UpdateChannel, called with the channel's interest already set to ev
Poller_UpdateChannel(channel, ev) ==
    LET status == m_status[channel]
        fd == FdOf(channel)
    IN  IF status = k_New \/ status = k_Deleted
        THEN /\ m_channels' = IF status = k_New
                              THEN [m_channels EXCEPT ![fd] = channel]
                              ELSE m_channels
             /\ m_status' = [m_status EXCEPT ![channel] = k_Added]
             /\ Poller_update("ADD", channel, ev)
        ELSE IF ev = k_NoneEvent
        THEN /\ Poller_update("DEL", channel, ev)
             /\ m_status' = [m_status EXCEPT ![channel] = k_Deleted]
             /\ UNCHANGED m_channels
        ELSE /\ Poller_update("MOD", channel, ev)
             /\ UNCHANGED <<m_status, m_channels>>

\* Poller::HasChannel
Poller_HasChannel(channel) == m_channels[FdOf(channel)] = channel

\* mutant: the table entry is not erased
Poller_RemoveChannel_NoErase(channel) ==
    /\ UNCHANGED m_channels
    /\ IF m_status[channel] = k_Added
       THEN Poller_update("DEL", channel, m_events[channel])
       ELSE UNCHANGED <<kernel, aborted>>
    /\ m_status' = [m_status EXCEPT ![channel] = k_New]

\* Poller::RemoveChannel
Poller_RemoveChannel(channel) ==
    /\ m_channels' = [m_channels EXCEPT ![FdOf(channel)] = NoChannel]
    /\ IF m_status[channel] = k_Added
       THEN Poller_update("DEL", channel, m_events[channel])
       ELSE UNCHANGED <<kernel, aborted>>
    /\ m_status' = [m_status EXCEPT ![channel] = k_New]

\* Channel::update after the caller set m_events to ev: EventLoop::UpdateChannel
\* (on the loop thread) and Poller::UpdateChannel
Channel_update(channel, ev) ==
    /\ m_events' = [m_events EXCEPT ![channel] = ev]
    /\ Poller_UpdateChannel(channel, ev)

\* the operations that end in Channel::update
IsUpdateOp(name) ==
    name \in {"OnReading", "OffReading", "OnWriting", "OffWriting", "OffAll"}

NoTrip == [channel |-> NoChannel, from |-> 0, step |-> 0]

\* the history of the operation name on channel, which the step has applied.
\* A round trip starts with OnReading on a channel without interest whose
\* status is New or Deleted (step 1), goes on with OffReading (step 2) and
\* ends with OnReading (step 3); any other operation on the channel ends it.
Traced(name, channel) ==
    /\ chanOp' = <<name, channel>>
    /\ roundTrip' =
          IF aborted' THEN NoTrip
          ELSE IF /\ name = "OnReading"
                  /\ roundTrip.channel = channel
                  /\ roundTrip.step = 2
               THEN [roundTrip EXCEPT !.step = 3]
          ELSE IF /\ name = "OnReading"
                  /\ m_events[channel] = k_NoneEvent
                  /\ m_status[channel] \in {k_New, k_Deleted}
               THEN [channel |-> channel, from |-> m_status[channel],
                     step |-> 1]
          ELSE IF /\ name = "OffReading"
                  /\ roundTrip.channel = channel
                  /\ roundTrip.step = 1
               THEN [roundTrip EXCEPT !.step = 2]
          ELSE IF roundTrip.channel = channel THEN NoTrip
          ELSE roundTrip
    /\ repeated' = /\ ~aborted'
                   /\ IsUpdateOp(name)
                   /\ IsUpdateOp(chanOp[1])
                   /\ chanOp[2] = channel
                   /\ m_events'[channel] = m_events[channel]

\* Channel::OnReading
OnReading(channel) ==
    /\ ~aborted
    /\ Channel_update(channel, m_events[channel] \cup k_ReadEvent)
    /\ Traced("OnReading", channel)
    /\ UNCHANGED otherThanChan

\* Channel::OffReading
OffReading(channel) ==
    /\ ~aborted
    /\ Channel_update(channel, m_events[channel] \ k_ReadEvent)
    /\ Traced("OffReading", channel)
    /\ UNCHANGED otherThanChan

\* Channel::OnWriting
OnWriting(channel) ==
    /\ ~aborted
    /\ Channel_update(channel, m_events[channel] \cup k_WriteEvent)
    /\ Traced("OnWriting", channel)
    /\ UNCHANGED otherThanChan

\* Channel::OffWriting
OffWriting(channel) ==
    /\ ~aborted
    /\ Channel_update(channel, m_events[channel] \ k_WriteEvent)
    /\ Traced("OffWriting", channel)
    /\ UNCHANGED otherThanChan

\* Channel::OffAll
OffAll(channel) ==
    /\ ~aborted
    /\ Channel_update(channel, k_NoneEvent)
    /\ Traced("OffAll", channel)
    /\ UNCHANGED otherThanChan

\* Channel::remove: EventLoop::RemoveChannel (on the loop thread) and
\* Poller::RemoveChannel
remove(channel) ==
    /\ ~aborted
    /\ Poller_RemoveChannel(channel)
    /\ UNCHANGED m_events
    /\ Traced("remove", channel)
    /\ UNCHANGED otherThanChan

\* The channels after EventLoop's constructor: the TimerQueue registered its
\* timerfd channel for reading, then the loop its wakeup channel.
InitChannelsWith(added) ==
    /\ m_events = [c \in Channels |->
                      IF c \in added THEN k_ReadEvent ELSE k_NoneEvent]
    /\ m_status = [c \in Channels |->
                      IF c \in added THEN k_Added ELSE k_New]
    /\ m_channels = [fd \in Fds |->
                      IF \E c \in added : FdOf(c) = fd
                      THEN CHOOSE c \in added : FdOf(c) = fd
                      ELSE NoChannel]
    /\ kernel = [fd \in Fds |->
                      IF \E c \in added : FdOf(c) = fd
                      THEN [ptr |-> CHOOSE c \in added : FdOf(c) = fd,
                            events |-> k_ReadEvent]
                      ELSE NoReg]
    /\ aborted = FALSE
    /\ chanOp = <<"none", NoChannel>>
    /\ roundTrip = NoTrip
    /\ repeated = FALSE

InitChannels == InitChannelsWith(OwnChannels)

(***************************************************************************)
(* TimerQueue                                                              *)
(***************************************************************************)

\* the latest tick of the clock
MaxTime == 3
\* how many Timer objects are ever constructed
MaxTimers == 2
\* the longest interval of a repeating timer
MaxInterval == 1

TimerIds == 1 .. MaxTimers
Times == 0 .. MaxTime
Intervals == 1 .. MaxInterval

\* Timer::IsRepeat (m_repeat = interval > 0)
IsRepeat(id) == m_interval[id] > 0

\* std::map's order of the keys (Timestamp, Timer*); the identity stands for
\* the address
KeyLess(a, b) == a.when < b.when \/ (a.when = b.when /\ a.id < b.id)

\* m_timers.begin()
Begin(map) == CHOOSE e \in map : \A f \in map : f = e \/ KeyLess(e, f)

\* m_timers[(when, id)] = unique_ptr(id)
MapPut(map, when, id) ==
    {e \in map : ~(e.when = when /\ e.id = id)}
        \cup {[when |-> when, id |-> id, own |-> TRUE]}

\* m_timers.find(key) != m_timers.end()
MapHas(map, when, id) == \E e \in map : e.when = when /\ e.id = id

\* m_timers.erase(key)
MapErase(map, when, id) == {e \in map : ~(e.when = when /\ e.id = id)}

\* the Timer objects the map's unique_ptrs own
Owned(map) == {e.id : e \in {f \in map : f.own}}

Range(seq) == {seq[i] : i \in 1 .. Len(seq)}

\* the Timer objects that are constructed and not deleted: each is owned by a
\* unique_ptr of the map or of HandleTimerfd's vector
Heap == Owned(m_timers) \cup Range(timeout)

\* the fields of the Timer objects in alive; a deleted Timer has none
Fields(f, alive) == [id \in TimerIds |-> IF id \in alive THEN f[id] ELSE 0]

\* detail::ResetTimerfd fails when the expiry is already in the past
ResetTimerfdFails(runtime) == runtime < clock

\* Timer::restart: the expiry advances by one interval
Restarted(rt, id) == [rt EXCEPT ![id] = rt[id] + m_interval[id]]

\* the vector sorted by key (GetTimeout walks the map from begin())
RECURSIVE SortedIds(_)
SortedIds(map) ==
    IF map = {} THEN <<>>
    ELSE LET b == Begin(map) IN <<b.id>> \o SortedIds(map \ {b})

\* TimerQueue::GetTimeout: the entries before
\* lower_bound(Key(now, UINTPTR_MAX)), that is those with when <= now
Expired(map, t) == {e \in map : e.when <= t}

\* TimerQueue::insert: whether the earliest expiry changes
EarliestChanged(map, when) == map = {} \/ when < Begin(map).when

\* TimerQueue::AddInLoop of the constructed timer id
AddInLoop(id, when) ==
    /\ m_timers' = MapPut(m_timers, when, id)
    /\ tfdArmed' = IF EarliestChanged(m_timers, when) /\ ~ResetTimerfdFails(when)
                   THEN {when} ELSE tfdArmed

\* TimerQueue::add on the loop thread: new Timer, then AddInLoop through
\* EventLoop::run
TimerQueue_add(when, interval) ==
    /\ nextTimer <= MaxTimers
    /\ nextTimer' = nextTimer + 1
    /\ m_runtime' = [m_runtime EXCEPT ![nextTimer] = when]
    /\ m_interval' = [m_interval EXCEPT ![nextTimer] = interval]
    /\ AddInLoop(nextTimer, when)

\* TimerQueue::CancelInLoop. TimerID::Key() reads the Timer's expiry; for a
\* deleted Timer the read is of freed memory, and whatever it yields no entry
\* of the map has this identity, so nothing is found.
CancelInLoop(id) ==
    IF id \in Heap /\ MapHas(m_timers, m_runtime[id], id)
    THEN IF ~runningCallback
         THEN /\ m_timers' = MapErase(m_timers, m_runtime[id], id)
              /\ m_runtime' = Fields(m_runtime, Heap \ {id})
              /\ m_interval' = Fields(m_interval, Heap \ {id})
              /\ UNCHANGED m_cancelledSoon
         ELSE /\ m_cancelledSoon' = Append(m_cancelledSoon, id)
              /\ UNCHANGED <<m_timers, m_runtime, m_interval>>
    ELSE UNCHANGED <<m_timers, m_runtime, m_interval, m_cancelledSoon>>

\* reset, first loop: every repeating timer of the batch is restarted and
\* put back
RECURSIVE Reinsert(_, _, _)
Reinsert(batch, map, rt) ==
    IF batch = <<>> THEN [map |-> map, rt |-> rt]
    ELSE LET id == Head(batch) IN
         IF IsRepeat(id)
         THEN LET rt2 == Restarted(rt, id) IN
              Reinsert(Tail(batch), MapPut(map, rt2[id], id), rt2)
         ELSE Reinsert(Tail(batch), map, rt)

\* reset, second loop: m_timers.erase(it.Key()) for every id of m_cancelledSoon
RECURSIVE EraseCancelled(_, _, _)
EraseCancelled(ids, map, rt) ==
    IF ids = <<>> THEN map
    ELSE EraseCancelled(Tail(ids), MapErase(map, rt[Head(ids)], Head(ids)), rt)

\* mutant: the timerfd is armed for the earliest timer whether or not its
\* expiry has passed, and no timer is dropped
Rearm_KeepsExpired(map, rt, armed) ==
    IF map = {} THEN [map |-> map, rt |-> rt, armed |-> armed, ignored |-> {}]
    ELSE [map |-> map, rt |-> rt, armed |-> {rt[Begin(map).id]},
          ignored |-> {}]

\* mutant: a timer for which arming fails is erased whether or not it repeats
RECURSIVE Rearm_DropsRepeating(_, _, _)
Rearm_DropsRepeating(map, rt, armed) ==
    IF map = {} THEN [map |-> map, rt |-> rt, armed |-> armed, ignored |-> {}]
    ELSE LET b == Begin(map) IN
         IF ~ResetTimerfdFails(rt[b.id])
         THEN [map |-> map, rt |-> rt, armed |-> {rt[b.id]}, ignored |-> {}]
         ELSE [Rearm_DropsRepeating(map \ {b}, rt, armed)
                  EXCEPT !.ignored = @ \cup {b.id}]

\* reset, third loop: arm the timerfd for the earliest timer; on failure the
\* earliest timer is restarted and put back under its new key (repeating) and
\* begin() is erased, and arming is tried again
RECURSIVE Rearm(_, _, _)
Rearm(map, rt, armed) ==
    IF map = {} THEN [map |-> map, rt |-> rt, armed |-> armed, ignored |-> {}]
    ELSE LET b == Begin(map) IN
         IF ~ResetTimerfdFails(rt[b.id])
         THEN [map |-> map, rt |-> rt, armed |-> {rt[b.id]}, ignored |-> {}]
         ELSE LET rest ==
                    IF IsRepeat(b.id)
                    THEN LET rt2 == Restarted(rt, b.id)
                             moved == (map \ {b}) \cup
                                          {[b EXCEPT !.own = FALSE]}
                             put == MapPut(moved, rt2[b.id], b.id)
                         IN  Rearm(put \ {Begin(put)}, rt2, armed)
                    ELSE Rearm(map \ {b}, rt, armed)
              IN  [rest EXCEPT !.ignored = @ \cup {b.id}]

\* mutant: the timerfd is not armed again after the batch
TimerQueue_reset_NoRearm(batch, map, rt, armed) ==
    LET r == Reinsert(batch, map, rt) IN
    [map |-> EraseCancelled(m_cancelledSoon, r.map, r.rt), rt |-> r.rt,
     armed |-> armed, ignored |-> {}]

\* TimerQueue::reset
TimerQueue_reset(batch, map, rt, armed) ==
    LET r == Reinsert(batch, map, rt) IN
    Rearm(EraseCancelled(m_cancelledSoon, r.map, r.rt), r.rt, armed)

\* the timerfd is readable: it expired and was not read since
TfdReadable == \E t \in tfdArmed : t <= clock

\* time passes
Tick ==
    /\ clock < MaxTime
    /\ clock' = clock + 1
    /\ tqDone' = "none"
    /\ UNCHANGED <<nextTimer, m_runtime, m_interval, m_timers,
                   m_cancelledSoon, runningCallback, tfdArmed, tfdActive, hpc,
                   timeout, tIdx, selfCancelled>>
    /\ UNCHANGED <<now, ignored, cancelled>>
    /\ UNCHANGED otherThanTimer

\* Poller::poll returns with the timerfd's channel among the active channels
PollTimerfd ==
    /\ hpc = "idle"
    /\ ~tfdActive
    /\ TfdReadable
    /\ tfdActive' = TRUE
    /\ tqDone' = "none"
    /\ UNCHANGED <<clock, nextTimer, m_runtime, m_interval, m_timers,
                   m_cancelledSoon, runningCallback, tfdArmed, hpc, timeout,
                   tIdx, selfCancelled>>
    /\ UNCHANGED <<now, ignored, cancelled>>
    /\ UNCHANGED otherThanTimer

\* EventLoop::runAt executed on the loop thread outside HandleTimerfd (from a
\* task, or from another channel's callback): TimerQueue::add(cb, when, 0.0)
TopRunAt(when) ==
    /\ hpc = "idle"
    /\ TimerQueue_add(when, 0)
    /\ tqDone' = "add"
    /\ UNCHANGED <<clock, m_cancelledSoon, runningCallback, tfdActive, hpc,
                   timeout, tIdx, selfCancelled>>
    /\ UNCHANGED <<now, ignored, cancelled>>
    /\ UNCHANGED otherThanTimer

\* EventLoop::runEvery executed on the loop thread outside HandleTimerfd:
\* TimerQueue::add(cb, now + interval, interval)
TopRunEvery(interval) ==
    /\ hpc = "idle"
    /\ TimerQueue_add(clock + interval, interval)
    /\ tqDone' = "add"
    /\ UNCHANGED <<clock, m_cancelledSoon, runningCallback, tfdActive, hpc,
                   timeout, tIdx, selfCancelled>>
    /\ UNCHANGED <<now, ignored, cancelled>>
    /\ UNCHANGED otherThanTimer

\* EventLoop::cancel executed on the loop thread outside HandleTimerfd
TopCancel(id) ==
    /\ hpc = "idle"
    /\ id < nextTimer
    /\ CancelInLoop(id)
    /\ tqDone' = "cancel"
    /\ UNCHANGED <<clock, nextTimer, runningCallback, tfdArmed, tfdActive,
                   hpc, timeout, tIdx, selfCancelled>>
    /\ cancelled' = cancelled \cup {id}
    /\ UNCHANGED <<now, ignored>>
    /\ UNCHANGED otherThanTimer

\* TimerQueue::HandleTimerfd up to the batch: ReadTimerfd, GetTimeout,
\* runningCallback = true
HandleBegin ==
    /\ hpc = "idle"
    /\ tfdActive
    /\ tfdActive' = FALSE
    /\ tfdArmed' = IF TfdReadable THEN {} ELSE tfdArmed
    /\ now' = clock
    /\ ignored' = {}
    /\ UNCHANGED cancelled
    /\ timeout' = SortedIds(Expired(m_timers, clock))
    /\ m_timers' = m_timers \ Expired(m_timers, clock)
    /\ runningCallback' = TRUE
    /\ tIdx' = 1
    /\ hpc' = "run"
    /\ tqDone' = "none"
    /\ UNCHANGED <<clock, nextTimer, m_runtime, m_interval, m_cancelledSoon,
                   selfCancelled>>
    /\ UNCHANGED otherThanTimer

\* item->run() of the batch's next timer; its callback returns at once
RunTimer ==
    /\ hpc = "run"
    /\ tIdx <= Len(timeout)
    /\ tIdx' = tIdx + 1
    /\ tqDone' = "none"
    /\ UNCHANGED <<clock, nextTimer, m_runtime, m_interval, m_timers,
                   m_cancelledSoon, runningCallback, tfdArmed, tfdActive, hpc,
                   timeout, selfCancelled>>
    /\ UNCHANGED <<now, ignored, cancelled>>
    /\ UNCHANGED otherThanTimer

\* item->run() of the batch's next timer; its callback calls cancel(id), which
\* EventLoop::run executes at once (CancelInLoop), and returns
RunTimerCancelling(id) ==
    /\ hpc = "run"
    /\ tIdx <= Len(timeout)
    /\ id < nextTimer
    /\ tIdx' = tIdx + 1
    /\ CancelInLoop(id)
    /\ selfCancelled' = IF id = timeout[tIdx] /\ IsRepeat(id)
                        THEN selfCancelled \cup {id} ELSE selfCancelled
    /\ tqDone' = "none"
    /\ UNCHANGED <<clock, nextTimer, runningCallback, tfdArmed, tfdActive,
                   hpc, timeout>>
    /\ cancelled' = IF id # timeout[tIdx]
                    THEN cancelled \cup {id} ELSE cancelled
    /\ UNCHANGED <<now, ignored>>
    /\ UNCHANGED otherThanTimer

\* item->run() of the batch's next timer; its callback calls runAt(when, cb),
\* which EventLoop::run executes at once (AddInLoop), and returns
RunTimerAdding(when) ==
    /\ hpc = "run"
    /\ tIdx <= Len(timeout)
    /\ tIdx' = tIdx + 1
    /\ TimerQueue_add(when, 0)
    /\ tqDone' = "none"
    /\ UNCHANGED <<clock, m_cancelledSoon, runningCallback, tfdActive, hpc,
                   timeout, selfCancelled>>
    /\ UNCHANGED <<now, ignored, cancelled>>
    /\ UNCHANGED otherThanTimer

\* TimerQueue::HandleTimerfd after the batch: runningCallback = false,
\* reset(timeout), and the vector's destructor deletes what it still owns
HandleReset ==
    /\ hpc = "run"
    /\ tIdx > Len(timeout)
    /\ LET r == TimerQueue_reset(timeout, m_timers, m_runtime, tfdArmed) IN
       /\ m_timers' = r.map
       /\ m_runtime' = Fields(r.rt, Owned(r.map))
       /\ m_interval' = Fields(m_interval, Owned(r.map))
       /\ tfdArmed' = r.armed
       /\ ignored' = r.ignored
    /\ m_cancelledSoon' = <<>>
    /\ runningCallback' = FALSE
    /\ timeout' = <<>>
    /\ tIdx' = 1
    /\ hpc' = "idle"
    /\ tqDone' = "handle"
    /\ UNCHANGED <<clock, nextTimer, tfdActive, selfCancelled>>
    /\ UNCHANGED <<now, cancelled>>
    /\ UNCHANGED otherThanTimer

\* A TimerQueue just constructed: no timer, the timerfd disarmed
InitTimers ==
    /\ clock = 0
    /\ nextTimer = 1
    /\ m_runtime = [id \in TimerIds |-> 0]
    /\ m_interval = [id \in TimerIds |-> 0]
    /\ m_timers = {}
    /\ m_cancelledSoon = <<>>
    /\ runningCallback = FALSE
    /\ tfdArmed = {}
    /\ tfdActive = FALSE
    /\ hpc = "idle"
    /\ timeout = <<>>
    /\ now = 0
    /\ ignored = {}
    /\ cancelled = {}
    /\ tIdx = 1
    /\ selfCancelled = {}
    /\ tqDone = "none"

(***************************************************************************)
(* EventLoop                                                               *)
(***************************************************************************)

\* the most tasks submitted in a behaviour
MaxTasks == 2
\* the iterations after which no poll times out and the fd of channel c3 no
\* longer becomes readable
MaxLoopNum == 2

\* the thread that constructed the loop (m_threadID), and the other threads
Owner == "loop"
Others == {"t1"}
Threads == {Owner} \cup Others

\* positions of the loop's thread inside loop()'s while statement
LoopBody == {"check", "poll", "dispatch", "swap", "drain"}

\* EventLoop::InLoopThread, evaluated on thread t
InLoopThread(t) == t = Owner

\* mutant: run() queues the callback on every thread
RunsInline_Never(t) == FALSE

\* mutant: run() calls the callback on whichever thread it is called on
RunsInline_Always(t) == TRUE

\* EventLoop::run: the callback is called at once
RunsInline(t) == InLoopThread(t)

\* mutant: AddExtraFunc wakes the loop only while it is draining
NeedsWakeup_OnlyDraining(t) == m_runningExtraFunc

\* EventLoop::AddExtraFunc: wakeup() is called
NeedsWakeup(t) == ~InLoopThread(t) \/ m_runningExtraFunc

\* EventLoop::quit: wakeup() is called
QuitNeedsWakeup(t) == ~InLoopThread(t)

\* mutant: the callback is put at the front of the queue
Enqueued_AtFront(queue, id) == <<id>> \o queue

\* EventLoop::AddExtraFunc: m_ExtraFuncs.emplace_back
Enqueued(queue, id) == Append(queue, id)

\* mutant: the drain takes only the first queued callback
RunExtraFunc_swap_OnlyFirst(queue) ==
    IF queue = <<>> THEN [functors |-> <<>>, rest |-> <<>>]
    ELSE [functors |-> <<Head(queue)>>, rest |-> Tail(queue)]

\* EventLoop::RunExtraFunc: functors.swap(m_ExtraFuncs) with functors empty
RunExtraFunc_swap(queue) == [functors |-> queue, rest |-> <<>>]

\* where the loop is when a callback is queued
Phase == IF lpc \in {"dispatch", "drain"} THEN lpc ELSE "other"

\* a submitted task (history)
\* a submitted task (history): who submitted it, whether run() called it at
\* once, where the loop was when it was queued and in which iteration, and,
\* once it was called, on which thread, how often, and how many iterations
\* after it was queued
Task(by, inline, kind) ==
    [by |-> by, inline |-> inline, kind |-> kind,
     phase |-> IF inline THEN "other" ELSE Phase,
     iter |-> IF inline \/ Phase = "other" THEN 0 ELSE m_loopNum,
     execBy |-> "none", runs |-> 0, later |-> 0]

TaskIds == 1 .. MaxTasks
Kinds == {"user", "timer"}

\* tasks that are TimerQueue::AddInLoop bound by TimerQueue::add
TimerTasks(ts) == {i \in 1 .. Len(ts) : ts[i].kind = "timer"}

\* a task may be submitted (the bounds of the model)
MaySubmit(kind) ==
    /\ lpc # "returned"
    /\ Len(tasks) < MaxTasks
    /\ kind = "timer" => Cardinality(TimerTasks(tasks)) < MaxTimers

\* the call of a queued or inline callback on thread t; ts is the history
\* with the task in it. A task of kind "timer" is TimerQueue::AddInLoop for a
\* one-shot timer one tick ahead; a task of kind "user" is user code, which
\* on the loop's thread stays on the stack until it returns.
Call(id, t, ts) ==
    /\ tasks' = [ts EXCEPT ![id].execBy = t,
                           ![id].runs = @ + 1,
                           ![id].iter = 0,
                           ![id].later = IF ts[id].phase = "other" THEN 0
                                         ELSE m_loopNum - ts[id].iter]
    /\ overtaken' = overtaken \cup
                        {<<i, id>> : i \in {j \in 1 .. id - 1 :
                                                ts[j].execBy = "none"}}
    /\ overlapped' = IF t = Owner /\ \E i \in 1 .. Len(stack) : stack[i] > 0
                     THEN overlapped \cup {id} ELSE overlapped
    /\ IF ts[id].kind = "timer"
       THEN /\ TimerQueue_add(clock + 1, 0)
            /\ UNCHANGED <<clock, m_cancelledSoon, runningCallback, tfdActive,
                           hpc, timeout, now, ignored, cancelled,
                           tIdx, selfCancelled,
                           tqDone>>
            /\ stack' = stack
            /\ ranOn' = ranOn \cup {<<"task", t>>, <<"timers", t>>}
       ELSE /\ UNCHANGED timerVars
            /\ stack' = IF t = Owner THEN Append(stack, id) ELSE stack
            /\ ranOn' = ranOn \cup {<<"task", t>>}

\* EventLoop::AddExtraFunc up to the end of its critical section
Queue(t, kind) ==
    /\ tasks' = Append(tasks, Task(t, FALSE, kind))
    /\ m_ExtraFuncs' = Enqueued(m_ExtraFuncs, Len(tasks) + 1)
    /\ UNCHANGED <<overtaken, overlapped, ranOn, stack>>
    /\ UNCHANGED timerVars

\* user code runs on the loop's thread: before loop() is called, or inside a
\* callback or task
OwnerRuns == ~aborted /\ (stack # <<>> \/ lpc = "enter")

\* the fd of channel c3 becomes readable
IoBecomesReady ==
    /\ ~aborted
    /\ ~ioReady
    /\ lpc # "returned"
    /\ m_loopNum < MaxLoopNum
    /\ ioReady' = TRUE
    /\ UNCHANGED <<lpc, m_looping, m_quit, m_runningCallback,
                   m_runningExtraFunc, m_loopNum, wakeCnt, m_ExtraFuncs,
                   m_activeChannels, actIdx, functors, fnIdx, stack, tpc,
                   tasks, overtaken, overlapped, ranOn, pollsAfterQuit>>
    /\ UNCHANGED <<chanVars, timerVars, eltVars, partVars>>

\* EventLoop::loop is called: AssertInLoopThread and m_looping = true
LoopEnter ==
    /\ ~aborted
    /\ lpc = "enter"
    /\ stack = <<>>
    /\ m_looping' = TRUE
    /\ lpc' = "reset"
    /\ UNCHANGED <<m_quit, m_runningCallback, m_runningExtraFunc, m_loopNum,
                   wakeCnt, m_ExtraFuncs, m_activeChannels, actIdx, functors,
                   fnIdx, stack, tpc, ioReady, tasks, overtaken, overlapped,
                   ranOn, pollsAfterQuit>>
    /\ UNCHANGED <<chanVars, timerVars, eltVars, partVars>>

\* EventLoop::loop: m_quit = false
LoopResetQuit ==
    /\ ~aborted
    /\ lpc = "reset"
    /\ m_quit' = FALSE
    /\ lpc' = "check"
    /\ UNCHANGED <<m_looping, m_runningCallback, m_runningExtraFunc,
                   m_loopNum, wakeCnt, m_ExtraFuncs, m_activeChannels, actIdx,
                   functors, fnIdx, stack, tpc, ioReady, tasks, overtaken,
                   overlapped, ranOn, pollsAfterQuit>>
    /\ UNCHANGED <<chanVars, timerVars, eltVars, partVars>>

\* EventLoop::loop: while (!m_quit), then either m_activeChannels.clear() and
\* the call of poll, or m_looping = false and the return
LoopCheck ==
    /\ ~aborted
    /\ lpc = "check"
    /\ IF m_quit
       THEN /\ m_looping' = FALSE
            /\ lpc' = "returned"
            /\ UNCHANGED m_activeChannels
       ELSE /\ m_activeChannels' = <<>>
            /\ lpc' = "poll"
            /\ UNCHANGED m_looping
    /\ UNCHANGED <<m_quit, m_runningCallback, m_runningExtraFunc, m_loopNum,
                   wakeCnt, m_ExtraFuncs, actIdx, functors, fnIdx, stack, tpc,
                   ioReady, tasks, overtaken, overlapped, ranOn,
                   pollsAfterQuit>>
    /\ UNCHANGED <<chanVars, timerVars, eltVars, partVars>>

\* the fd of a channel is readable
Readable(channel) ==
    IF channel = "wake" THEN wakeCnt > 0
    ELSE IF channel = "tfd" THEN TfdReadable
    ELSE IF channel = "c3" THEN ioReady
    ELSE FALSE

\* what epoll_wait reports: the registrations whose fd is readable and whose
\* interest includes reading
ReadyChannels ==
    {c \in Channels : /\ kernel[FdOf(c)].ptr = c
                      /\ kernel[FdOf(c)].events \cap k_ReadEvent # {}
                      /\ Readable(c)}

\* the orders in which epoll_wait may report a set of channels
Orders(S) ==
    {s \in [1 .. Cardinality(S) -> S] :
        \A i, j \in 1 .. Cardinality(S) : i # j => s[i] # s[j]}

\* what loop() does when poll has returned with the channels in active; num
\* is the loop counter after ++m_loopNum
AfterPoll(active, num) ==
    /\ m_activeChannels' = active
    /\ m_loopNum' = num
    /\ m_runningCallback' = TRUE
    /\ actIdx' = 1
    /\ lpc' = "dispatch"
    /\ pollsAfterQuit' = IF m_quit THEN pollsAfterQuit + 1 ELSE pollsAfterQuit
    /\ UNCHANGED <<m_looping, m_quit, m_runningExtraFunc, wakeCnt,
                   m_ExtraFuncs, functors, fnIdx, stack, tpc, ioReady, tasks, overtaken, overlapped, ranOn>>
    /\ UNCHANGED <<chanVars, timerVars, eltVars, partVars>>

\* Poller::poll returns with events
PollReturn ==
    /\ ~aborted
    /\ lpc = "poll"
    /\ ReadyChannels # {}
    /\ \E active \in Orders(ReadyChannels) : AfterPoll(active, m_loopNum + 1)

\* Poller::poll returns after k_PollTimeoutMs without any event
PollTimeout ==
    /\ ~aborted
    /\ lpc = "poll"
    /\ ReadyChannels = {}
    /\ m_loopNum < MaxLoopNum
    /\ AfterPoll(<<>>, m_loopNum + 1)

\* Poller::poll times out in a later iteration: the loop goes on as after
\* every timeout, and the model stops counting its iterations
PollTimeoutAgain ==
    /\ ~aborted
    /\ lpc = "poll"
    /\ ReadyChannels = {}
    /\ m_loopNum >= MaxLoopNum
    /\ AfterPoll(<<>>, m_loopNum)

\* loop() dispatches the wakeup channel: EventLoop::WakeUpRead reads the
\* eventfd, which resets its counter
DispatchWake ==
    /\ ~aborted
    /\ lpc = "dispatch"
    /\ stack = <<>>
    /\ actIdx <= Len(m_activeChannels)
    /\ m_activeChannels[actIdx] = "wake"
    /\ wakeCnt' = 0
    /\ actIdx' = actIdx + 1
    /\ ranOn' = ranOn \cup {<<"channel", Owner>>}
    /\ UNCHANGED <<lpc, m_looping, m_quit, m_runningCallback,
                   m_runningExtraFunc, m_loopNum, m_ExtraFuncs,
                   m_activeChannels, functors, fnIdx, stack, tpc, ioReady, tasks, overtaken, overlapped, pollsAfterQuit>>
    /\ UNCHANGED <<chanVars, timerVars, eltVars, partVars>>

\* loop() dispatches channel c3: its read callback, user code that reads the
\* fd, is called
DispatchUser ==
    /\ ~aborted
    /\ lpc = "dispatch"
    /\ stack = <<>>
    /\ actIdx <= Len(m_activeChannels)
    /\ m_activeChannels[actIdx] = "c3"
    /\ stack' = <<0>>
    /\ ioReady' = FALSE
    /\ actIdx' = actIdx + 1
    /\ ranOn' = ranOn \cup {<<"channel", Owner>>}
    /\ UNCHANGED <<lpc, m_looping, m_quit, m_runningCallback,
                   m_runningExtraFunc, m_loopNum, wakeCnt, m_ExtraFuncs,
                   m_activeChannels, functors, fnIdx, tpc, tasks,
                   overtaken, overlapped, pollsAfterQuit>>
    /\ UNCHANGED <<chanVars, timerVars, eltVars, partVars>>

\* loop() after the last active channel: m_runningCallback = false, and
\* RunExtraFunc up to its critical section
DispatchEnd ==
    /\ ~aborted
    /\ lpc = "dispatch"
    /\ stack = <<>>
    /\ actIdx > Len(m_activeChannels)
    /\ m_runningCallback' = FALSE
    /\ m_runningExtraFunc' = TRUE
    /\ lpc' = "swap"
    /\ UNCHANGED <<m_looping, m_quit, m_loopNum, wakeCnt, m_ExtraFuncs,
                   m_activeChannels, actIdx, functors, fnIdx, stack, tpc,
                   ioReady, tasks, overtaken, overlapped, ranOn,
                   pollsAfterQuit>>
    /\ UNCHANGED <<chanVars, timerVars, eltVars, partVars>>

\* EventLoop::RunExtraFunc: the critical section
DrainSwap ==
    /\ ~aborted
    /\ lpc = "swap"
    /\ functors' = RunExtraFunc_swap(m_ExtraFuncs).functors
    /\ m_ExtraFuncs' = RunExtraFunc_swap(m_ExtraFuncs).rest
    /\ fnIdx' = 1
    /\ lpc' = "drain"
    /\ UNCHANGED <<m_looping, m_quit, m_runningCallback, m_runningExtraFunc,
                   m_loopNum, wakeCnt, m_activeChannels, actIdx, stack, tpc,
                   ioReady, tasks, overtaken, overlapped, ranOn,
                   pollsAfterQuit>>
    /\ UNCHANGED <<chanVars, timerVars, eltVars, partVars>>

\* EventLoop::RunExtraFunc calls the next functor
DrainCall ==
    /\ ~aborted
    /\ lpc = "drain"
    /\ stack = <<>>
    /\ fnIdx <= Len(functors)
    /\ Call(functors[fnIdx], Owner, tasks)
    /\ fnIdx' = fnIdx + 1
    /\ UNCHANGED <<lpc, m_looping, m_quit, m_runningCallback,
                   m_runningExtraFunc, m_loopNum, wakeCnt, m_ExtraFuncs,
                   m_activeChannels, actIdx, functors, tpc, ioReady,
                   pollsAfterQuit>>
    /\ UNCHANGED <<chanVars, eltVars, partVars>>

\* EventLoop::RunExtraFunc after the last functor: m_runningExtraFunc = false
DrainEnd ==
    /\ ~aborted
    /\ lpc = "drain"
    /\ stack = <<>>
    /\ fnIdx > Len(functors)
    /\ m_runningExtraFunc' = FALSE
    /\ functors' = <<>>
    /\ fnIdx' = 1
    /\ lpc' = "check"
    /\ UNCHANGED <<m_looping, m_quit, m_runningCallback, m_loopNum, wakeCnt,
                   m_ExtraFuncs, m_activeChannels, actIdx, stack, tpc,
                   ioReady, tasks, overtaken, overlapped, ranOn,
                   pollsAfterQuit>>
    /\ UNCHANGED <<chanVars, timerVars, eltVars, partVars>>

\* user code on the loop's thread calls EventLoop::AddExtraFunc
OwnerAddExtraFunc ==
    /\ OwnerRuns
    /\ MaySubmit("user")
    /\ Queue(Owner, "user")
    /\ wakeCnt' = IF NeedsWakeup(Owner) THEN wakeCnt + 1 ELSE wakeCnt
    /\ UNCHANGED <<lpc, m_looping, m_quit, m_runningCallback,
                   m_runningExtraFunc, m_loopNum, m_activeChannels, actIdx,
                   functors, fnIdx, tpc, ioReady, pollsAfterQuit>>
    /\ UNCHANGED <<chanVars, eltVars, partVars>>

\* user code on the loop's thread calls EventLoop::run (kind "user"), or
\* EventLoop::runAt, that is TimerQueue::add (kind "timer")
OwnerRun(kind) ==
    /\ OwnerRuns
    /\ MaySubmit(kind)
    /\ IF RunsInline(Owner)
       THEN /\ Call(Len(tasks) + 1, Owner,
                    Append(tasks, Task(Owner, TRUE, kind)))
            /\ UNCHANGED <<m_ExtraFuncs, wakeCnt>>
       ELSE /\ Queue(Owner, kind)
            /\ wakeCnt' = IF NeedsWakeup(Owner) THEN wakeCnt + 1 ELSE wakeCnt
    /\ UNCHANGED <<lpc, m_looping, m_quit, m_runningCallback,
                   m_runningExtraFunc, m_loopNum, m_activeChannels, actIdx,
                   functors, fnIdx, tpc, ioReady, pollsAfterQuit>>
    /\ UNCHANGED <<chanVars, eltVars, partVars>>

\* user code on the loop's thread calls EventLoop::quit
OwnerQuit ==
    /\ OwnerRuns
    /\ ~m_quit
    /\ m_quit' = TRUE
    /\ wakeCnt' = IF QuitNeedsWakeup(Owner) THEN wakeCnt + 1 ELSE wakeCnt
    /\ UNCHANGED <<lpc, m_looping, m_runningCallback, m_runningExtraFunc,
                   m_loopNum, m_ExtraFuncs, m_activeChannels, actIdx,
                   functors, fnIdx, stack, tpc, ioReady, tasks,
                   overtaken, overlapped, ranOn, pollsAfterQuit>>
    /\ UNCHANGED <<chanVars, timerVars, eltVars, partVars>>

\* the read callback of channel c3 calls Channel::OffAll on its channel
CallbackOffAll ==
    /\ OwnerRuns
    /\ stack # <<>>
    /\ stack[Len(stack)] = 0
    /\ m_status["c3"] = k_Added
    /\ Channel_update("c3", k_NoneEvent)
    /\ Traced("OffAll", "c3")
    /\ ranOn' = ranOn \cup {<<"poller", Owner>>}
    /\ UNCHANGED <<lpc, m_looping, m_quit, m_runningCallback,
                   m_runningExtraFunc, m_loopNum, wakeCnt, m_ExtraFuncs,
                   m_activeChannels, actIdx, functors, fnIdx, stack, tpc,
                   ioReady, tasks, overtaken, overlapped,
                   pollsAfterQuit>>
    /\ UNCHANGED <<timerVars, eltVars, partVars>>

\* the innermost callback or task on the loop's thread returns
Return ==
    /\ ~aborted
    /\ stack # <<>>
    /\ stack' = SubSeq(stack, 1, Len(stack) - 1)
    /\ UNCHANGED <<lpc, m_looping, m_quit, m_runningCallback,
                   m_runningExtraFunc, m_loopNum, wakeCnt, m_ExtraFuncs,
                   m_activeChannels, actIdx, functors, fnIdx, tpc, ioReady, tasks, overtaken, overlapped, ranOn,
                   pollsAfterQuit>>
    /\ UNCHANGED <<chanVars, timerVars, eltVars, partVars>>

\* another thread calls EventLoop::AddExtraFunc, up to the end of the
\* critical section
OtherAddExtraFunc(t) ==
    /\ ~aborted
    /\ tpc[t] = "idle"
    /\ MaySubmit("user")
    /\ Queue(t, "user")
    /\ tpc' = [tpc EXCEPT ![t] = IF NeedsWakeup(t) THEN "wake" ELSE "idle"]
    /\ UNCHANGED <<lpc, m_looping, m_quit, m_runningCallback,
                   m_runningExtraFunc, m_loopNum, wakeCnt, m_activeChannels,
                   actIdx, functors, fnIdx, ioReady,
                   pollsAfterQuit>>
    /\ UNCHANGED <<chanVars, eltVars, partVars>>

\* another thread calls EventLoop::run (kind "user"), or EventLoop::runAt,
\* that is TimerQueue::add (kind "timer")
OtherRun(t, kind) ==
    /\ ~aborted
    /\ tpc[t] = "idle"
    /\ MaySubmit(kind)
    /\ IF RunsInline(t)
       THEN /\ Call(Len(tasks) + 1, t, Append(tasks, Task(t, TRUE, kind)))
            /\ UNCHANGED <<m_ExtraFuncs, tpc>>
       ELSE /\ Queue(t, kind)
            /\ tpc' = [tpc EXCEPT ![t] =
                          IF NeedsWakeup(t) THEN "wake" ELSE "idle"]
    /\ UNCHANGED <<lpc, m_looping, m_quit, m_runningCallback,
                   m_runningExtraFunc, m_loopNum, wakeCnt, m_activeChannels,
                   actIdx, functors, fnIdx, ioReady,
                   pollsAfterQuit>>
    /\ UNCHANGED <<chanVars, eltVars, partVars>>

\* another thread calls EventLoop::quit, up to the call of wakeup
OtherQuit(t) ==
    /\ ~aborted
    /\ tpc[t] = "idle"
    /\ ~m_quit
    /\ m_quit' = TRUE
    /\ tpc' = [tpc EXCEPT ![t] =
                  IF QuitNeedsWakeup(t) THEN "quitWake" ELSE "idle"]
    /\ UNCHANGED <<lpc, m_looping, m_runningCallback, m_runningExtraFunc,
                   m_loopNum, wakeCnt, m_ExtraFuncs, m_activeChannels, actIdx,
                   functors, fnIdx, stack, ioReady, tasks, overtaken,
                   overlapped, ranOn, pollsAfterQuit>>
    /\ UNCHANGED <<chanVars, timerVars, eltVars, partVars>>

\* EventLoop::wakeup on another thread: the write adds one to the eventfd's
\* counter
wakeup(t) ==
    /\ ~aborted
    /\ tpc[t] \in {"wake", "quitWake"}
    /\ wakeCnt' = wakeCnt + 1
    /\ tpc' = [tpc EXCEPT ![t] = "idle"]
    /\ UNCHANGED <<lpc, m_looping, m_quit, m_runningCallback,
                   m_runningExtraFunc, m_loopNum, m_ExtraFuncs,
                   m_activeChannels, actIdx, functors, fnIdx, stack, ioReady, tasks, overtaken, overlapped, ranOn,
                   pollsAfterQuit>>
    /\ UNCHANGED <<chanVars, timerVars, eltVars, partVars>>

\* another thread calls Channel::OnWriting on channel c3: the channel's
\* interest is set, then EventLoop::UpdateChannel's AssertInLoopThread logs
\* at FATAL, which ends the process
OtherOnWriting(t) ==
    /\ ~aborted
    /\ tpc[t] = "idle"
    /\ ~InLoopThread(t)
    /\ m_events' = [m_events EXCEPT !["c3"] = @ \cup k_WriteEvent]
    /\ aborted' = TRUE
    /\ UNCHANGED <<m_status, m_channels, kernel, chanOp, roundTrip, repeated>>
    /\ UNCHANGED <<timerVars, loopVars, eltVars, partVars>>

\* The fields of an EventLoop just constructed, its thread at pc
InitLoopAt(pc) ==
    /\ lpc = pc
    /\ m_looping = FALSE
    /\ m_quit = FALSE
    /\ m_runningCallback = FALSE
    /\ m_runningExtraFunc = FALSE
    /\ m_loopNum = 0
    /\ wakeCnt = 0
    /\ m_ExtraFuncs = <<>>
    /\ m_activeChannels = <<>>
    /\ actIdx = 1
    /\ functors = <<>>
    /\ fnIdx = 1
    /\ stack = <<>>
    /\ tpc = [t \in Others |-> "idle"]
    /\ ioReady = FALSE
    /\ tasks = <<>>
    /\ overtaken = {}
    /\ overlapped = {}
    /\ ranOn = {}
    /\ pollsAfterQuit = 0

\* An EventLoop just constructed on its owner thread, which has yet to call
\* loop()
InitLoop == InitLoopAt("enter")

\* no EventLoopThread: the loop was constructed by its owner thread
InitThreadIdle ==
    /\ m_loop = "null"
    /\ m_exiting = FALSE
    /\ spc = "none"
    /\ dpc = "none"
    /\ loopObj = "alive"
    /\ uaf = FALSE

(***************************************************************************)
(* Channel::RunCallback                                                    *)
(***************************************************************************)

\* the bits of a ready mask: EPOLLIN, EPOLLPRI, EPOLLOUT, EPOLLHUP,
\* EPOLLRDHUP, EPOLLERR
Bits == {"IN", "PRI", "OUT", "HUP", "RDHUP", "ERR"}

\* the four callback slots of a Channel
Callbacks == {"close", "error", "read", "write"}

\* mutant: the close branch is taken on every EPOLLHUP
CloseFires_OnEveryHup(R) == "HUP" \in R

\* RunCallbackWithGuard: (m_revents & EPOLLHUP) && !(m_revents & EPOLLIN)
CloseFires(R) == "HUP" \in R /\ "IN" \notin R

\* RunCallbackWithGuard: m_revents & EPOLLERR
ErrorFires(R) == "ERR" \in R

\* mutant: EPOLLRDHUP is not a read event
ReadFires_WithoutRdhup(R) == R \cap {"IN", "PRI"} # {}

\* RunCallbackWithGuard: m_revents & (EPOLLIN | EPOLLPRI | EPOLLRDHUP)
ReadFires(R) == R \cap {"IN", "PRI", "RDHUP"} # {}

\* RunCallbackWithGuard: m_revents & EPOLLOUT
WriteFires(R) == "OUT" \in R

\* no RunCallback is executing
NotDispatching == rpc \in {"idle", "done", "skipped"}

\* Channel::SetReadCallback, SetWriteCallback, SetCloseCallback,
\* SetErrorCallback with a callable; the record of the last dispatch is of
\* the callbacks as they were, and is dropped
SetCallback(cb) ==
    /\ NotDispatching
    /\ cb \notin hasCallback
    /\ hasCallback' = hasCallback \cup {cb}
    /\ rpc' = "idle"
    /\ fired' = <<>>
    /\ UNCHANGED <<m_revents, m_tied, tieAlive>>
    /\ UNCHANGED <<chanVars, timerVars, loopVars, eltVars, slotVars, poolVars, actVars>>

\* Channel::tie
tie ==
    /\ NotDispatching
    /\ ~m_tied
    /\ m_tied' = TRUE
    /\ tieAlive' = TRUE
    /\ UNCHANGED <<m_revents, hasCallback, rpc, fired>>
    /\ UNCHANGED <<chanVars, timerVars, loopVars, eltVars, slotVars, poolVars, actVars>>

\* the last shared_ptr to the tied object is dropped; during a dispatch
\* RunCallback's guard holds one
TieExpires ==
    /\ NotDispatching
    /\ m_tied
    /\ tieAlive
    /\ tieAlive' = FALSE
    /\ UNCHANGED <<m_revents, m_tied, hasCallback, rpc, fired>>
    /\ UNCHANGED <<chanVars, timerVars, loopVars, eltVars, slotVars, poolVars, actVars>>

\* Channel::SetRevents, called by Poller::CollectActiveChannels
SetRevents(R) ==
    /\ NotDispatching
    /\ m_revents' = R
    /\ rpc' = "idle"
    /\ fired' = <<>>
    /\ UNCHANGED <<m_tied, tieAlive, hasCallback>>
    /\ UNCHANGED <<chanVars, timerVars, loopVars, eltVars, slotVars, poolVars, actVars>>

\* Channel::RunCallback: the tie is locked, and RunCallbackWithGuard is
\* called unless the tied object is gone
RunCallback ==
    /\ rpc = "idle"
    /\ rpc' = IF m_tied /\ ~tieAlive THEN "skipped" ELSE "close"
    /\ fired' = <<>>
    /\ UNCHANGED <<m_revents, m_tied, tieAlive, hasCallback>>
    /\ UNCHANGED <<chanVars, timerVars, loopVars, eltVars, slotVars, poolVars, actVars>>

\* one if statement of RunCallbackWithGuard: the callback cb is called when
\* the mask has its bits and the callback is set; next is the statement
\* after it
Branch(cb, fires, next) ==
    /\ rpc = cb
    /\ fired' = IF fires /\ cb \in hasCallback
                THEN Append(fired, cb) ELSE fired
    /\ rpc' = next
    /\ UNCHANGED <<m_revents, m_tied, tieAlive, hasCallback>>
    /\ UNCHANGED <<chanVars, timerVars, loopVars, eltVars, slotVars, poolVars, actVars>>

\* RunCallbackWithGuard: the branch of m_closeCallback
BranchClose == Branch("close", CloseFires(m_revents), "error")

\* RunCallbackWithGuard: the branch of m_errorCallback
BranchError == Branch("error", ErrorFires(m_revents), "read")

\* RunCallbackWithGuard: the branch of m_readCallback
BranchRead == Branch("read", ReadFires(m_revents), "write")

\* RunCallbackWithGuard: the branch of m_writeCallback, and the return
BranchWrite == Branch("write", WriteFires(m_revents), "done")

\* A Channel just constructed: no callback set, not tied
InitDispatch ==
    /\ m_revents = {}
    /\ m_tied = FALSE
    /\ tieAlive = FALSE
    /\ hasCallback = {}
    /\ rpc = "idle"
    /\ fired = <<>>

(***************************************************************************)
(* EventLoop objects and the thread-local slot detail::t_loopOfThisThread  *)
(***************************************************************************)

\* how many EventLoop objects are constructed
MaxLoops == 4

LoopIds == 1 .. MaxLoops

\* nullptr in t_loopOfThisThread
NoLoop == 0

\* mutant: the constructor never finds the slot occupied
SlotTaken_Never(t) == FALSE

\* EventLoop::EventLoop: if (detail::t_loopOfThisThread)
SlotTaken(t) == t_loopOfThisThread[t] # NoLoop

\* EventLoop::EventLoop on thread t, for the next EventLoop object l:
\* m_threadID is the constructing thread; LOG_FATAL if the thread's slot is
\* occupied, else the slot points to the new loop
ConstructEventLoop(t, l) ==
    /\ ~fatal
    /\ loopState[l] = "none"
    /\ \A k \in LoopIds : k < l => loopState[k] # "none"
    /\ slotOp' = <<"construct", t>>
    /\ IF SlotTaken(t)
       THEN /\ fatal' = TRUE
            /\ UNCHANGED <<t_loopOfThisThread, loopState, m_threadID>>
       ELSE /\ t_loopOfThisThread' = [t_loopOfThisThread EXCEPT ![t] = l]
            /\ loopState' = [loopState EXCEPT ![l] = "alive"]
            /\ m_threadID' = [m_threadID EXCEPT ![l] = t]
            /\ UNCHANGED fatal
    /\ UNCHANGED <<chanVars, timerVars, loopVars, eltVars, dispVars, poolVars, actVars>>

\* EventLoop::~EventLoop of the live loop l, run by thread t:
\* m_wakeUpChannel->OffAll() reaches EventLoop::UpdateChannel, whose
\* AssertInLoopThread is fatal on any thread but the loop's; on the loop's
\* thread the destructor ends with detail::t_loopOfThisThread = nullptr
DestroyEventLoop(t, l) ==
    /\ ~fatal
    /\ loopState[l] = "alive"
    /\ slotOp' = <<"destroy", t>>
    /\ IF m_threadID[l] # t
       THEN /\ fatal' = TRUE
            /\ UNCHANGED <<t_loopOfThisThread, loopState, m_threadID>>
       ELSE /\ t_loopOfThisThread' = [t_loopOfThisThread EXCEPT ![t] = NoLoop]
            /\ loopState' = [loopState EXCEPT ![l] = "destroyed"]
            /\ UNCHANGED <<m_threadID, fatal>>
    /\ UNCHANGED <<chanVars, timerVars, loopVars, eltVars, dispVars, poolVars, actVars>>

\* No EventLoop was constructed yet
InitSlots ==
    /\ t_loopOfThisThread = [t \in Threads |-> NoLoop]
    /\ loopState = [l \in LoopIds |-> "none"]
    /\ m_threadID = [l \in LoopIds |-> "none"]
    /\ fatal = FALSE
    /\ slotOp = <<"none", "none">>

(***************************************************************************)
(* EventLoopThreadPool                                                     *)
(***************************************************************************)

\* the largest number of worker threads, and of GetNextLoop calls
MaxThreadNum == 5
MaxCalls == 24

\* EventLoopThreadPool::m_loop, the base loop; the worker loops are named by
\* their place in the order of creation, from 0
BaseLoop == -1

\* mutant: the cursor wraps one place early
Advance_WrapsEarly(next, size) == IF next + 2 >= size THEN 0 ELSE next + 1

\* GetNextLoop: m_next++ and if ((uint64_t)m_next >= m_loops.size()) m_next = 0
Advance(next, size) == IF next + 1 >= size THEN 0 ELSE next + 1

\* EventLoopThreadPool::SetThreadNum
SetThreadNum(threadNum) ==
    /\ m_thrdNum' = threadNum
    /\ UNCHANGED <<m_started, m_next, m_loops, calls, returned>>
    /\ UNCHANGED <<chanVars, timerVars, loopVars, eltVars, dispVars, slotVars, actVars>>

\* EventLoopThreadPool::start, called once on the base loop's thread: every
\* EventLoopThread is created and started in turn, and the loop its start()
\* returns is appended to m_loops
EventLoopThreadPool_start ==
    /\ ~m_started
    /\ m_started' = TRUE
    /\ m_loops' = [i \in 1 .. m_thrdNum |-> i - 1]
    /\ calls' = 0
    /\ UNCHANGED <<m_thrdNum, m_next, returned>>
    /\ UNCHANGED <<chanVars, timerVars, loopVars, eltVars, dispVars, slotVars, actVars>>

\* EventLoopThreadPool::GetNextLoop on the base loop's thread
GetNextLoop ==
    /\ calls < MaxCalls
    /\ calls' = calls + 1
    /\ IF m_loops # <<>>
       THEN /\ returned' = m_loops[m_next + 1]
            /\ m_next' = Advance(m_next, Len(m_loops))
       ELSE /\ returned' = BaseLoop
            /\ UNCHANGED m_next
    /\ UNCHANGED <<m_thrdNum, m_started, m_loops>>
    /\ UNCHANGED <<chanVars, timerVars, loopVars, eltVars, dispVars, slotVars, actVars>>

\* An EventLoopThreadPool just constructed
InitPool ==
    /\ m_thrdNum = 0
    /\ m_started = FALSE
    /\ m_next = 0
    /\ m_loops = <<>>
    /\ calls = 0
    /\ returned = BaseLoop

(***************************************************************************)
(* EventLoop::loop dispatching several user channels                       *)
(***************************************************************************)

\* the loop's variables that the dispatch of a channel leaves alone
dispatchKeeps == <<lpc, m_looping, m_quit, m_runningCallback,
                   m_runningExtraFunc, m_loopNum, wakeCnt, m_ExtraFuncs,
                   m_activeChannels, functors, fnIdx, tpc, ioReady, tasks,
                   overtaken, overlapped, ranOn, pollsAfterQuit>>

\* the fd of a user channel becomes readable
FdBecomesReady(fd) ==
    /\ ~aborted
    /\ lpc # "returned"
    /\ fd \notin readyFds
    /\ readyFds' = readyFds \cup {fd}
    /\ UNCHANGED current
    /\ UNCHANGED <<chanVars, timerVars, loopVars, eltVars, dispVars, slotVars,
                   poolVars>>

\* what epoll_wait reports of the user fds: the registrations with read
\* interest whose fd is readable, each with the channel it was registered for
ActiveUserChannels ==
    {c \in UserChannels : /\ kernel[FdOf(c)].ptr = c
                          /\ kernel[FdOf(c)].events \cap k_ReadEvent # {}
                          /\ FdOf(c) \in readyFds}

\* Poller::poll returns with user channels: CollectActiveChannels fills
\* m_activeChannels, and loop() counts the iteration and sets
\* m_runningCallback
PollActive ==
    /\ ~aborted
    /\ lpc = "poll"
    /\ ActiveUserChannels # {}
    /\ m_loopNum < MaxLoopNum
    /\ \E active \in Orders(ActiveUserChannels) :
           m_activeChannels' = active
    /\ m_loopNum' = m_loopNum + 1
    /\ m_runningCallback' = TRUE
    /\ actIdx' = 1
    /\ lpc' = "dispatch"
    /\ UNCHANGED <<m_looping, m_quit, m_runningExtraFunc, wakeCnt,
                   m_ExtraFuncs, functors, fnIdx, stack, tpc, ioReady, tasks,
                   overtaken, overlapped, ranOn, pollsAfterQuit>>
    /\ UNCHANGED <<chanVars, timerVars, eltVars, partVars>>

\* loop(): channel->RunCallback for the next channel of m_activeChannels; its
\* read callback, user code that reads the fd, is called. Nothing but the
\* list is looked at.
RunActive ==
    /\ ~aborted
    /\ lpc = "dispatch"
    /\ stack = <<>>
    /\ actIdx <= Len(m_activeChannels)
    /\ current' = m_activeChannels[actIdx]
    /\ readyFds' = readyFds \ {FdOf(m_activeChannels[actIdx])}
    /\ stack' = <<0>>
    /\ actIdx' = actIdx + 1
    /\ UNCHANGED dispatchKeeps
    /\ UNCHANGED <<chanVars, timerVars, eltVars, dispVars, slotVars, poolVars>>

\* the running callback calls Channel::remove on a channel
CallbackRemoves(channel) ==
    /\ ~aborted
    /\ lpc = "dispatch"
    /\ stack = <<0>>
    /\ Poller_RemoveChannel(channel)
    /\ UNCHANGED m_events
    /\ Traced("remove", channel)
    /\ UNCHANGED otherThanChan

\* the running callback calls Channel::OffAll on a registered channel
CallbackDisables(channel) ==
    /\ ~aborted
    /\ lpc = "dispatch"
    /\ stack = <<0>>
    /\ m_status[channel] = k_Added
    /\ Channel_update(channel, k_NoneEvent)
    /\ Traced("OffAll", channel)
    /\ UNCHANGED otherThanChan

\* No user fd is readable, no channel was dispatched
InitActive ==
    /\ readyFds = {}
    /\ current = NoChannel

\* the parts that a specification does not move
InitParts == InitDispatch /\ InitSlots /\ InitPool /\ InitActive

(***************************************************************************)
(* EventLoopThread                                                         *)
(***************************************************************************)

\* EventLoopThread::start: m_thrd.start() starts the thread, which runs
\* EventLoopThread::Loop
StartThread ==
    /\ ~aborted
    /\ spc = "idle"
    /\ dpc = "none"
    /\ lpc = "unstarted"
    /\ spc' = "lock"
    /\ lpc' = "construct"
    /\ UNCHANGED <<m_loop, m_exiting, dpc, loopObj, uaf>>
    /\ UNCHANGED <<m_looping, m_quit, m_runningCallback, m_runningExtraFunc,
                   m_loopNum, wakeCnt, m_ExtraFuncs, m_activeChannels, actIdx,
                   functors, fnIdx, stack, tpc, ioReady, tasks, overtaken,
                   overlapped, ranOn, pollsAfterQuit>>
    /\ UNCHANGED <<chanVars, timerVars, partVars>>

\* EventLoopThread::start: under m_mu, return m_loop if it is set, else wait
\* on m_cond (which releases m_mu)
StartLock ==
    /\ ~aborted
    /\ spc = "lock"
    /\ spc' = IF m_loop = "null" THEN "waiting" ELSE "returned"
    /\ UNCHANGED <<m_loop, m_exiting, dpc, loopObj, uaf>>
    /\ UNCHANGED <<chanVars, timerVars, loopVars, partVars>>

\* EventLoopThread::start: m_cond.wait was notified, holds m_mu again and
\* evaluates its predicate
StartWoken ==
    /\ ~aborted
    /\ spc = "woken"
    /\ spc' = IF m_loop = "null" THEN "waiting" ELSE "returned"
    /\ UNCHANGED <<m_loop, m_exiting, dpc, loopObj, uaf>>
    /\ UNCHANGED <<chanVars, timerVars, loopVars, partVars>>

\* EventLoopThread::Loop: EventLoop's constructor, the TimerQueue member
\* (its constructor registers the timerfd's channel)
ConstructTimerQueue ==
    /\ ~aborted
    /\ lpc = "construct"
    /\ Channel_update("tfd", k_ReadEvent)
    /\ Traced("OnReading", "tfd")
    /\ lpc' = "construct2"
    /\ loopObj' = "alive"
    /\ UNCHANGED <<m_loop, m_exiting, spc, dpc, uaf>>
    /\ UNCHANGED <<m_looping, m_quit, m_runningCallback, m_runningExtraFunc,
                   m_loopNum, wakeCnt, m_ExtraFuncs, m_activeChannels, actIdx,
                   functors, fnIdx, stack, tpc, ioReady, tasks, overtaken,
                   overlapped, ranOn, pollsAfterQuit>>
    /\ UNCHANGED <<timerVars, partVars>>

\* EventLoopThread::Loop: EventLoop's constructor, its body (the wakeup
\* channel is registered), and the thread's init callback
ConstructLoop ==
    /\ ~aborted
    /\ lpc = "construct2"
    /\ Channel_update("wake", k_ReadEvent)
    /\ Traced("OnReading", "wake")
    /\ lpc' = "publish"
    /\ UNCHANGED <<m_looping, m_quit, m_runningCallback, m_runningExtraFunc,
                   m_loopNum, wakeCnt, m_ExtraFuncs, m_activeChannels, actIdx,
                   functors, fnIdx, stack, tpc, ioReady, tasks, overtaken,
                   overlapped, ranOn, pollsAfterQuit>>
    /\ UNCHANGED <<timerVars, eltVars, partVars>>

\* mutant: the notification is lost
notify_one_Lost(waiter) == waiter

\* m_cond.notify_one(), under m_mu: start() is woken if it waits on m_cond,
\* and nothing is remembered if it does not
notify_one(waiter) == IF waiter = "waiting" THEN "woken" ELSE waiter

\* EventLoopThread::Loop: under m_mu, m_loop = &loop and m_cond.notify_one(),
\* which wakes start() if it waits
Publish ==
    /\ ~aborted
    /\ lpc = "publish"
    /\ m_loop' = "loop"
    /\ spc' = notify_one(spc)
    /\ lpc' = "enter"
    /\ UNCHANGED <<m_exiting, dpc, loopObj, uaf>>
    /\ UNCHANGED <<m_looping, m_quit, m_runningCallback, m_runningExtraFunc,
                   m_loopNum, wakeCnt, m_ExtraFuncs, m_activeChannels, actIdx,
                   functors, fnIdx, stack, tpc, ioReady, tasks, overtaken,
                   overlapped, ranOn, pollsAfterQuit>>
    /\ UNCHANGED <<chanVars, timerVars, partVars>>

\* EventLoopThread::Loop after loop() returned: under m_mu, m_loop = nullptr
Unpublish ==
    /\ ~aborted
    /\ m_loop # "null"
    /\ lpc = "returned"
    /\ m_loop' = "null"
    /\ lpc' = "exit"
    /\ UNCHANGED <<m_exiting, spc, dpc, loopObj, uaf>>
    /\ UNCHANGED <<m_looping, m_quit, m_runningCallback, m_runningExtraFunc,
                   m_loopNum, wakeCnt, m_ExtraFuncs, m_activeChannels, actIdx,
                   functors, fnIdx, stack, tpc, ioReady, tasks, overtaken,
                   overlapped, ranOn, pollsAfterQuit>>
    /\ UNCHANGED <<chanVars, timerVars, partVars>>

\* EventLoopThread::Loop returns: the EventLoop on its stack is destroyed
\* (its channels are removed, its fds closed) and the thread ends
DestroyLoop ==
    /\ ~aborted
    /\ lpc = "exit"
    /\ lpc' = "exited"
    /\ loopObj' = "destroyed"
    /\ m_events' = [c \in Channels |-> k_NoneEvent]
    /\ m_status' = [c \in Channels |-> k_New]
    /\ m_channels' = [fd \in Fds |-> NoChannel]
    /\ kernel' = [fd \in Fds |-> NoReg]
    /\ chanOp' = <<"remove", "wake">>
    /\ roundTrip' = NoTrip
    /\ repeated' = FALSE
    /\ UNCHANGED aborted
    /\ UNCHANGED <<m_loop, m_exiting, spc, dpc, uaf>>
    /\ UNCHANGED <<m_looping, m_quit, m_runningCallback, m_runningExtraFunc,
                   m_loopNum, wakeCnt, m_ExtraFuncs, m_activeChannels, actIdx,
                   functors, fnIdx, stack, tpc, ioReady, tasks, overtaken,
                   overlapped, ranOn, pollsAfterQuit>>
    /\ UNCHANGED <<timerVars, partVars>>

\* a thread that got the loop from start() calls EventLoop::quit on it
QuitStarted(t) ==
    /\ spc = "returned"
    /\ loopObj = "alive"
    /\ OtherQuit(t)

\* EventLoopThread::~EventLoopThread: m_exiting = true and the unlocked read
\* of m_loop
DtorBegin ==
    /\ ~aborted
    /\ spc \in {"idle", "returned"}
    /\ dpc = "none"
    /\ m_exiting' = TRUE
    /\ dpc' = IF m_loop # "null" THEN "quit" ELSE "done"
    /\ UNCHANGED <<m_loop, spc, loopObj, uaf>>
    /\ UNCHANGED <<chanVars, timerVars, loopVars, partVars>>

\* ~EventLoopThread: m_loop->quit() up to the call of wakeup. The destructor
\* reads m_loop without m_mu while Loop() may store nullptr to it: the call
\* goes through the pointer the if statement read, or through a second read
\* of m_loop. Through a null pointer the process ends; on an EventLoop that
\* Loop() already destroyed the call writes to a dead object.
DtorQuit ==
    /\ ~aborted
    /\ dpc = "quit"
    /\ \/ /\ dpc' = "wake"
          /\ IF loopObj = "alive"
             THEN m_quit' = TRUE /\ UNCHANGED uaf
             ELSE uaf' = TRUE /\ UNCHANGED m_quit
          /\ UNCHANGED aborted
       \/ /\ m_loop = "null"
          /\ dpc' = "segv"
          /\ aborted' = TRUE
          /\ UNCHANGED <<m_quit, uaf>>
    /\ UNCHANGED <<m_loop, m_exiting, spc, loopObj>>
    /\ UNCHANGED <<lpc, m_looping, m_runningCallback, m_runningExtraFunc,
                   m_loopNum, wakeCnt, m_ExtraFuncs, m_activeChannels, actIdx,
                   functors, fnIdx, stack, tpc, ioReady, tasks, overtaken,
                   overlapped, ranOn, pollsAfterQuit>>
    /\ UNCHANGED <<m_events, m_status, m_channels, kernel, chanOp, roundTrip,
                   repeated>>
    /\ UNCHANGED <<timerVars, partVars>>

\* ~EventLoopThread: m_loop->quit(), its wakeup (the destructor does not run
\* on the loop's thread)
DtorWakeup ==
    /\ ~aborted
    /\ dpc = "wake"
    /\ dpc' = "join"
    /\ IF loopObj = "alive"
       THEN wakeCnt' = wakeCnt + 1 /\ UNCHANGED uaf
       ELSE uaf' = TRUE /\ UNCHANGED wakeCnt
    /\ UNCHANGED <<m_loop, m_exiting, spc, loopObj>>
    /\ UNCHANGED <<lpc, m_looping, m_quit, m_runningCallback,
                   m_runningExtraFunc, m_loopNum, m_ExtraFuncs,
                   m_activeChannels, actIdx, functors, fnIdx, stack, tpc,
                   ioReady, tasks, overtaken, overlapped, ranOn,
                   pollsAfterQuit>>
    /\ UNCHANGED <<chanVars, timerVars, partVars>>

\* ~EventLoopThread: m_thrd.join() returns once the thread has ended
DtorJoin ==
    /\ ~aborted
    /\ dpc = "join"
    /\ lpc = "exited"
    /\ dpc' = "done"
    /\ UNCHANGED <<m_loop, m_exiting, spc, loopObj, uaf>>
    /\ UNCHANGED <<chanVars, timerVars, loopVars, partVars>>

\* An EventLoopThread just constructed: no thread, no EventLoop
InitThread ==
    /\ InitChannelsWith({})
    /\ InitTimers
    /\ InitLoopAt("unstarted")
    /\ m_loop = "null"
    /\ m_exiting = FALSE
    /\ spc = "idle"
    /\ dpc = "none"
    /\ loopObj = "none"
    /\ uaf = FALSE
    /\ InitParts

vars == <<chanVars, timerVars, loopVars, eltVars, partVars>>

Init ==
    /\ InitChannelsWith(OwnChannels \cup {"c3"})
    /\ InitTimers
    /\ InitLoop
    /\ InitThreadIdle
    /\ InitParts

\* loop() without user code
LoopCore ==
    \/ LoopEnter
    \/ LoopResetQuit
    \/ LoopCheck
    \/ PollReturn
    \/ DispatchWake
    \/ DispatchEnd
    \/ DrainSwap
    \/ DrainEnd

\* loop() and the tasks it calls
LoopTasks ==
    \/ LoopCore
    \/ DrainCall
    \/ Return

\* loop() and the tasks and callbacks it calls
LoopSteps ==
    \/ LoopTasks
    \/ DispatchUser

\* user code on the loop's thread
OwnerSteps ==
    \/ OwnerAddExtraFunc
    \/ OwnerRun("user")
    \/ OwnerQuit

\* the other threads
OtherSteps ==
    \/ \E t \in Others : OtherAddExtraFunc(t)
    \/ \E t \in Others : OtherRun(t, "user")
    \/ \E t \in Others : OtherQuit(t)
    \/ \E t \in Others : wakeup(t)

\* Tasks, callbacks and quit, with polls that may time out
Next ==
    \/ LoopSteps
    \/ OwnerSteps
    \/ OtherSteps
    \/ IoBecomesReady
    \/ PollTimeout

Spec == Init /\ [][Next]_vars

\* Tasks and quit when nothing but a wakeup makes poll return: no poll
\* times out and no other fd becomes readable. Every thread that can take a
\* step eventually takes one.
NextLive ==
    \/ LoopTasks
    \/ OwnerSteps
    \/ OtherSteps

SpecLive ==
    /\ Init
    /\ [][NextLive]_vars
    /\ WF_vars(LoopTasks)
    /\ \A t \in Others : WF_vars(wakeup(t))

\* Tasks and timers submitted from any thread, channel operations from any
\* thread
NextAffinity ==
    \/ LoopSteps
    \/ IoBecomesReady
    \/ \E kind \in Kinds : OwnerRun(kind)
    \/ \E t \in Others, kind \in Kinds : OtherRun(t, kind)
    \/ \E t \in Others : wakeup(t)
    \/ CallbackOffAll
    \/ \E t \in Others : OtherOnWriting(t)

SpecAffinity == Init /\ [][NextAffinity]_vars

\* the steps of the thread that EventLoopThread started
LoopThreadSteps ==
    \/ ConstructTimerQueue
    \/ ConstructLoop
    \/ Publish
    \/ LoopCore
    \/ PollTimeout
    \/ PollTimeoutAgain
    \/ Unpublish
    \/ DestroyLoop

\* the steps of the thread that owns the EventLoopThread, once it has called
\* start() or the destructor
OwnerOfThreadSteps ==
    \/ StartLock
    \/ StartWoken
    \/ DtorQuit
    \/ DtorWakeup
    \/ DtorJoin

\* An EventLoopThread that is started and destroyed while another thread may
\* call quit() on its loop
NextThread ==
    \/ StartThread
    \/ DtorBegin
    \/ LoopThreadSteps
    \/ OwnerOfThreadSteps
    \/ \E t \in Others : QuitStarted(t)
    \/ \E t \in Others : wakeup(t)

\* every thread that can take a step eventually takes one, and a poll
\* without events times out
SpecThread ==
    /\ InitThread
    /\ [][NextThread]_vars
    /\ WF_vars(LoopThreadSteps)
    /\ WF_vars(OwnerOfThreadSteps)
    /\ \A t \in Others : WF_vars(wakeup(t))


InitTimer ==
    InitChannels /\ InitTimers /\ InitLoop /\ InitThreadIdle /\ InitParts

NextTimer ==
    \/ Tick
    \/ PollTimerfd
    \/ \E when \in Times : TopRunAt(when)
    \/ \E interval \in Intervals : TopRunEvery(interval)
    \/ \E id \in TimerIds : TopCancel(id)
    \/ HandleBegin
    \/ RunTimer
    \/ \E id \in TimerIds : RunTimerCancelling(id)
    \/ \E when \in Times : RunTimerAdding(when)
    \/ HandleReset

SpecTimer == InitTimer /\ [][NextTimer]_vars

InitPoller ==
    InitChannels /\ InitTimers /\ InitLoop /\ InitThreadIdle /\ InitParts

NextPoller ==
    \E c \in UserChannels :
        \/ OnReading(c)
        \/ OffReading(c)
        \/ OnWriting(c)
        \/ OffWriting(c)
        \/ OffAll(c)
        \/ remove(c)

SpecPoller == InitPoller /\ [][NextPoller]_vars

\* One channel whose owner sets callbacks and ties it, and which is
\* dispatched with every ready mask
InitDispatched ==
    InitChannels /\ InitTimers /\ InitLoop /\ InitThreadIdle /\ InitParts

NextDispatch ==
    \/ \E cb \in Callbacks : SetCallback(cb)
    \/ tie
    \/ TieExpires
    \/ \E R \in SUBSET Bits : SetRevents(R)
    \/ RunCallback
    \/ BranchClose
    \/ BranchError
    \/ BranchRead
    \/ BranchWrite

SpecDispatch == InitDispatched /\ [][NextDispatch]_vars

\* EventLoop objects constructed and destroyed by the threads
NextSlot ==
    \/ \E t \in Threads, l \in LoopIds : ConstructEventLoop(t, l)
    \/ \E t \in Threads, l \in LoopIds : DestroyEventLoop(t, l)

SpecSlot == InitDispatched /\ [][NextSlot]_vars

\* An EventLoopThreadPool used from its base loop's thread
NextPool ==
    \/ \E threadNum \in 0 .. MaxThreadNum : SetThreadNum(threadNum)
    \/ EventLoopThreadPool_start
    \/ GetNextLoop

SpecPool == InitDispatched /\ [][NextPool]_vars

\* A loop whose only events are those of user channels, which their owner
\* registers before the loop polls
NextActive ==
    \/ LoopEnter
    \/ LoopResetQuit
    \/ LoopCheck
    \/ \E c \in UserChannels : lpc \in {"enter", "check"} /\ OnReading(c)
    \/ \E fd \in {FdOf(c) : c \in UserChannels} : FdBecomesReady(fd)
    \/ PollActive
    \/ RunActive
    \/ \E c \in UserChannels : CallbackRemoves(c)
    \/ \E c \in UserChannels : CallbackDisables(c)
    \/ Return
    \/ DispatchEnd
    \/ DrainSwap
    \/ DrainEnd

SpecActive == InitDispatched /\ [][NextActive]_vars

(***************************************************************************)
(* Claims about tasks                                                      *)
(***************************************************************************)

Submitted == 1 .. Len(tasks)
HasRun(i) == tasks[i].execBy # "none"

\* C3 as the specification states it: for every thread, the owner included,
\* the tasks it submits through any mix of run() and AddExtraFunc() are
\* executed in the order it submitted them, and no task starts while another
\* task is executing.
C3_SubmissionOrderNoOverlap ==
    /\ \A p \in overtaken : tasks[p[1]].by # tasks[p[2]].by
    /\ overlapped = {}

\* C3 as the code has it: queued tasks (AddExtraFunc from any thread, run()
\* from a thread other than the owner) are executed in the order they were
\* queued and one after the other, so the tasks of a thread other than the
\* owner are executed in submission order; only a task that the owner's run()
\* calls at once starts before a task submitted earlier, or while another
\* task is executing.
C3_QueuedInOrderNoOverlap ==
    /\ \A p \in overtaken : tasks[p[2]].inline /\ tasks[p[2]].by = Owner
    /\ \A i \in overlapped : tasks[i].inline /\ tasks[i].by = Owner

\* two tasks of a thread other than the owner have both been executed, the
\* one submitted first before the other
C3_Witness ==
    /\ \E i, j \in Submitted :
          /\ i < j
          /\ tasks[i].by = tasks[j].by
          /\ tasks[i].by # Owner
          /\ HasRun(i)
          /\ HasRun(j)
          /\ <<i, j>> \notin overtaken

\* C4: in every iteration the dispatch of the active channels is complete
\* before the drain starts; a task queued while channels are being
\* dispatched is executed in the drain of the same iteration; a task queued
\* while the drain is executing (after its swap) is not executed in that
\* drain but in the drain of the next iteration.
C4_DispatchThenDrain ==
    /\ lpc \in {"swap", "drain"} =>
          /\ actIdx > Len(m_activeChannels)
          /\ \A k \in 1 .. Len(stack) : stack[k] # 0
    /\ \A i \in Submitted :
          /\ (tasks[i].phase = "dispatch" /\ ~HasRun(i)) =>
                /\ m_loopNum = tasks[i].iter
                /\ lpc \in {"dispatch", "swap", "drain"}
          /\ (tasks[i].phase = "dispatch" /\ HasRun(i)) =>
                /\ tasks[i].later = 0
                /\ tasks[i].runs = 1
          /\ (tasks[i].phase = "drain" /\ ~HasRun(i)) =>
                \/ m_loopNum = tasks[i].iter
                \/ /\ m_loopNum = tasks[i].iter + 1
                   /\ lpc \in {"dispatch", "swap", "drain"}
          /\ (tasks[i].phase = "drain" /\ HasRun(i)) =>
                /\ tasks[i].later = 1
                /\ tasks[i].runs = 1

\* a task queued during dispatch and a task queued during the drain have
\* both been executed
C4_Witness ==
    /\ \E i \in Submitted : tasks[i].phase = "dispatch" /\ HasRun(i)
    /\ \E i \in Submitted : tasks[i].phase = "drain" /\ HasRun(i)

\* a task queued by a thread other than the owner that has not been executed
Waiting(i) == i \in Submitted /\ tasks[i].by # Owner /\ ~HasRun(i)

\* C5: a task queued by a thread other than the owner, on a loop that is
\* running and not quit, is eventually executed, and no task is executed
\* more than once; no poll times out in SpecLive.
C5_QueuedTaskRunsOnce ==
    /\ \A i \in TaskIds :
          [](Waiting(i) => <>(~Waiting(i) \/ m_quit \/ lpc = "returned"))
    /\ [](\A i \in Submitted : tasks[i].runs <= 1)

\* a task queued by another thread while the loop was in poll, with nothing
\* else to wake it, has been executed
C5_Witness ==
    \E i \in Submitted :
        /\ tasks[i].by # Owner
        /\ tasks[i].runs = 1
        /\ tasks[i].execBy = Owner
        /\ ~m_quit
        /\ m_loopNum = 1
        /\ ~ioReady
        /\ Len(tasks) = 1

(***************************************************************************)
(* Claims about quit                                                       *)
(***************************************************************************)

\* C6: once quit() has been called on a loop whose loop() is executing,
\* loop() returns, after at most one further return of poll.
C6_QuitReturns ==
    /\ [](pollsAfterQuit <= 1)
    /\ []((m_quit /\ m_looping) => <>(lpc = "returned"))

\* C7: the destructor of an EventLoopThread whose start() has returned
\* terminates (a process that ended in the destructor's call through a null
\* m_loop is the case of C26, not a destructor that waits for ever).
C7_DestructorTerminates ==
    []((spc = "returned" /\ dpc \in {"quit", "wake", "join"})
          => <>(dpc \in {"done", "segv"}))

\* the step in which ~EventLoopThread calls m_loop->quit(), and the step in
\* which that quit() calls wakeup() on the loop
DtorCallsQuit == dpc = "quit" /\ dpc' # "quit"
DtorQuitWakes == dpc = "wake" /\ dpc' # "wake"

\* C26: the EventLoopThread destructor never calls quit() through a null
\* pointer or on an EventLoop that has already been destroyed: when the
\* destructor executes m_loop->quit(), the pointer it calls through is not
\* null and the loop it points to is alive until quit() has returned.
C26_DestructorQuitsLiveLoop ==
    [][/\ DtorCallsQuit => (dpc' # "segv" /\ loopObj = "alive")
       /\ DtorQuitWakes => loopObj = "alive"
      ]_vars

\* the step in which EventLoopThread::start returns
StartReturns == spc # "returned" /\ spc' = "returned"

\* C16: EventLoopThread::start always eventually returns (the handshake
\* between start and the new thread cannot lose the notification), and what
\* it returns is a non-null pointer to the loop constructed on the new
\* thread, after the thread's init callback has run on that loop.
C16_StartReturnsTheLoop ==
    /\ [](spc \in {"lock", "waiting", "woken"} => <>(spc = "returned"))
    /\ [][StartReturns =>
            /\ m_loop' = "loop"
            /\ loopObj' = "alive"
            /\ lpc' \notin {"unstarted", "construct", "construct2", "publish"}
         ]_vars

\* C16 witness: start() has returned the loop, which is alive, and the
\* destructor has not begun.
C16_Witness ==
    /\ spc = "returned"
    /\ m_loop = "loop"
    /\ loopObj = "alive"
    /\ dpc = "none"

\* C19: run(f) called on the loop's owner thread executes f at once, on the
\* caller's stack, so that f has run when run() returns, and f is never
\* placed in the pending queue; this holds before loop() is called, during
\* the dispatch of the active channels and during the drain of the queue.
C19_OwnerRunIsImmediate ==
    /\ [][OwnerRun("user") =>
            LET id == Len(tasks) + 1 IN
            /\ tasks'[id].execBy = Owner
            /\ tasks'[id].runs = 1
            /\ stack' = Append(stack, id)
            /\ m_ExtraFuncs' = m_ExtraFuncs
            /\ functors' = functors
         ]_vars
    /\ [](\A i \in 1 .. Len(tasks) :
            (tasks[i].by = Owner /\ tasks[i].inline) =>
                /\ i \notin Range(m_ExtraFuncs) \cup Range(functors)
                /\ tasks[i].runs = 1)

\* C19 witness: during the drain of the queue a task on the owner thread
\* called run(f), and f is executing on top of it.
C19_Witness ==
    /\ lpc = "drain"
    /\ Len(stack) >= 2
    /\ stack[Len(stack)] > 0
    /\ tasks[stack[Len(stack)]].inline
    /\ tasks[stack[Len(stack)]].by = Owner
    /\ tasks[stack[Len(stack)]].runs = 1

\* the loop's thread is inside epoll_wait and no registered fd is ready
BlockedInPoll == ~aborted /\ lpc = "poll" /\ ReadyChannels = {}

\* C25: the loop never blocks in poll while its pending-task queue is
\* non-empty unless a wakeup is outstanding: the eventfd's counter is non-zero
\* or a submitter is between its enqueue and its wakeup write.
C25_NoBlockedPollWithPendingTasks ==
    (BlockedInPoll /\ m_ExtraFuncs # <<>>) =>
        (wakeCnt > 0 \/ \E t \in Others : tpc[t] = "wake")

(***************************************************************************)
(* Claims about threads                                                    *)
(***************************************************************************)

\* C8: every channel callback and every task is executed on the loop's owner
\* thread, and the timer map and the poller's table are only changed on it.
C8_OnlyOnOwnerThread ==
    /\ \A p \in ranOn : p[2] = Owner
    /\ \A i \in Submitted : tasks[i].execBy \in {"none", Owner}

\* a timer added from another thread is in the timer map, a channel callback
\* has run and changed the poller's table
C8_Witness ==
    /\ \E i \in Submitted :
          /\ tasks[i].by # Owner
          /\ tasks[i].kind = "timer"
          /\ HasRun(i)
    /\ m_timers # {}
    /\ <<"channel", Owner>> \in ranOn
    /\ <<"poller", Owner>> \in ranOn
    /\ <<"timers", Owner>> \in ranOn

(***************************************************************************)
(* Claims about Channel and Poller (checked under SpecPoller)              *)
(***************************************************************************)

Registered(channel) == m_status[channel] \in {k_Added, k_Deleted}

\* No other channel of the loop is a Channel object over the same fd number.
FdUnshared(channel) ==
    \A other \in Channels \ {channel} : FdOf(other) # FdOf(channel)

\* C9 as stated: after any sequence of OnReading/OffReading/OnWriting/
\* OffWriting/OffAll/remove calls, for every channel C, Poller::HasChannel(C)
\* is true if and only if C's status is Added or Deleted.
C9_HasChannelIffRegistered ==
    ~aborted => \A c \in Channels : Poller_HasChannel(c) <=> Registered(c)

\* C9 amended: HasChannel(C) implies status Added or Deleted for every
\* channel; the converse holds for every channel whose fd is used by no other
\* channel of the loop (the fd -> channel table holds one entry per fd, and a
\* second Channel over the same fd takes over or erases the first one's entry).
C9_HasChannelIffRegisteredUnsharedFd ==
    ~aborted =>
        \A c \in Channels :
            /\ Poller_HasChannel(c) => Registered(c)
            /\ (FdUnshared(c) /\ Registered(c)) => Poller_HasChannel(c)

\* C9 witness: c3 (its fd is its own) was added and then disabled, so it is
\* Deleted and still in the table, while c1 was registered and removed again.
C9_Witness ==
    /\ ~aborted
    /\ m_status["c3"] = k_Deleted
    /\ Poller_HasChannel("c3")
    /\ chanOp = <<"remove", "c1">>
    /\ m_status["c1"] = k_New
    /\ ~Poller_HasChannel("c1")

\* C10 as stated: a channel's status changes only New -> Added by an update
\* with non-empty interest, Added -> Deleted by an update with empty
\* interest, Deleted -> Added by an update with non-empty interest, and any
\* status -> New by remove(); an update issued with empty interest never
\* leaves the channel in status Added.
C10_TransitionsAsStated ==
    [][\A c \in Channels :
          LET s == m_status[c]
              t == m_status'[c]
              e == m_events'[c]
          IN  /\ (s # t =>
                    \/ s = k_New /\ t = k_Added /\ e # k_NoneEvent
                    \/ s = k_Added /\ t = k_Deleted /\ e = k_NoneEvent
                    \/ s = k_Deleted /\ t = k_Added /\ e # k_NoneEvent
                    \/ t = k_New /\ chanOp' = <<"remove", c>>)
              /\ (IsUpdateOp(chanOp'[1]) /\ chanOp'[2] = c /\ e = k_NoneEvent)
                    => t # k_Added
      ]_vars

\* C10 amended: a channel's status changes only New -> Added by any update
\* (whatever the interest), Added -> Deleted by an update with empty interest,
\* Deleted -> Added by any update (whatever the interest), and any status ->
\* New by remove(); an update issued with empty interest leaves an Added
\* channel Deleted and a New or Deleted channel Added.
C10_TransitionsOfTheCode ==
    [][\A c \in Channels :
          LET s == m_status[c]
              t == m_status'[c]
              e == m_events'[c]
          IN  /\ (s # t =>
                    \/ s = k_New /\ t = k_Added /\ IsUpdateOp(chanOp'[1])
                    \/ s = k_Added /\ t = k_Deleted /\ e = k_NoneEvent
                                   /\ IsUpdateOp(chanOp'[1])
                    \/ s = k_Deleted /\ t = k_Added /\ IsUpdateOp(chanOp'[1])
                    \/ t = k_New /\ chanOp' = <<"remove", c>>)
              /\ (IsUpdateOp(chanOp'[1]) /\ chanOp'[2] = c /\ e = k_NoneEvent)
                    => /\ s = k_Added => t = k_Deleted
                       /\ s \in {k_New, k_Deleted} => t = k_Added
      ]_vars

\* C10 witness: OffAll on the New channel c3 left it Added with empty interest.
C10_Witness ==
    /\ ~aborted
    /\ chanOp = <<"OffAll", "c3">>
    /\ m_status["c3"] = k_Added
    /\ m_events["c3"] = k_NoneEvent

\* C11: for a channel with no other interest set, whose status is New or
\* Deleted, OnReading() followed by OffReading() leaves the channel with empty
\* interest and status Deleted, and a further OnReading() returns it to status
\* Added with read interest.
C11_ReadRoundTrip ==
    ~aborted =>
        LET c == roundTrip.channel IN
        /\ roundTrip.step = 2 =>
              /\ m_events[c] = k_NoneEvent
              /\ m_status[c] = k_Deleted
        /\ roundTrip.step = 3 =>
              /\ m_events[c] = k_ReadEvent
              /\ m_status[c] = k_Added

\* C11 witness: channel c3 went through the whole round trip starting from
\* status Deleted.
C11_Witness ==
    /\ ~aborted
    /\ roundTrip = [channel |-> "c3", from |-> k_Deleted, step |-> 3]
    /\ chanOp = <<"OnReading", "c3">>
    /\ m_status["c3"] = k_Added

\* the step is a second update of the same channel with the interest the
\* first one was called with
SecondUpdate == repeated' /\ chanVars' # chanVars

\* C20 as stated: Poller::UpdateChannel is idempotent for every status and
\* every interest mask: calling it twice in a row with the same interest
\* leaves the same status, table and kernel registration as calling it once.
C20_UpdateIdempotent ==
    [][SecondUpdate =>
          /\ m_status' = m_status
          /\ m_channels' = m_channels
          /\ kernel' = kernel]_vars

\* C20 amended: Poller::UpdateChannel is idempotent for every status when the
\* interest mask is not empty; with an empty interest mask the second call
\* reverses the first one's change of status and kernel registration (Added
\* becomes Deleted and the fd is deregistered, Deleted becomes Added and the
\* fd is registered with an empty mask), and the table is the same.
C20_UpdateIdempotentUnlessEmpty ==
    [][SecondUpdate =>
          LET c == chanOp'[2] IN
          /\ m_channels' = m_channels
          /\ \A d \in Channels \ {c} : m_status'[d] = m_status[d]
          /\ IF m_events'[c] # k_NoneEvent
             THEN m_status' = m_status /\ kernel' = kernel
             ELSE /\ m_status[c] = k_Added =>
                       /\ m_status'[c] = k_Deleted
                       /\ kernel'[FdOf(c)] = NoReg
                 /\ m_status[c] = k_Deleted =>
                       /\ m_status'[c] = k_Added
                       /\ kernel'[FdOf(c)] = [ptr |-> c, events |-> k_NoneEvent]
                 /\ m_status[c] # k_New
      ]_vars

\* C20 witness: OffAll was called twice in a row on the Added channel c3; the
\* first call left it Deleted and the second one Added again.
C20_Witness ==
    /\ repeated
    /\ chanOp = <<"OffAll", "c3">>
    /\ m_events["c3"] = k_NoneEvent
    /\ m_status["c3"] = k_Added
    /\ kernel[FdOf("c3")] = [ptr |-> "c3", events |-> k_NoneEvent]

\* the fd is registered in the epoll instance
InKernel(fd) == kernel[fd] # NoReg

\* what C21 says of one channel: it is in the kernel exactly when it is
\* Added, in the table exactly when it is Added or Deleted
TableAndKernelAgree(c) ==
    LET fd == FdOf(c) IN
    /\ m_status[c] = k_Added => (m_channels[fd] = c /\ InKernel(fd))
    /\ m_status[c] = k_Deleted => (m_channels[fd] = c /\ ~InKernel(fd))
    /\ m_status[c] = k_New => (m_channels[fd] # c /\ kernel[fd].ptr # c)

\* C21 as stated: after any sequence of channel update and remove operations
\* an fd is registered in the kernel multiplexer if and only if the table
\* maps it to a channel whose status is Added; a Deleted channel has a table
\* entry but its fd is absent from the kernel, a New channel has neither, and
\* no two distinct channels with the same fd are both Added or Deleted.
C21_KernelIffTableAdded ==
    ~aborted =>
        /\ \A fd \in Fds :
              InKernel(fd) <=> (/\ m_channels[fd] # NoChannel
                                /\ m_status[m_channels[fd]] = k_Added)
        /\ \A c \in Channels : TableAndKernelAgree(c)
        /\ \A c \in Channels : \A d \in Channels \ {c} :
              FdOf(c) = FdOf(d) => ~(Registered(c) /\ Registered(d))

\* C21 amended: for every fd that only one channel of the loop uses, the fd
\* is registered in the kernel if and only if the table maps it to that
\* channel and the channel's status is Added; a Deleted channel on such an fd
\* has a table entry and is absent from the kernel, a New one has neither.
\* The poller does not check that an fd is used by one channel only.
C21_KernelIffTableAddedUnsharedFd ==
    ~aborted =>
        \A c \in Channels :
            FdUnshared(c) =>
                /\ InKernel(FdOf(c)) <=> (/\ m_channels[FdOf(c)] = c
                                           /\ m_status[c] = k_Added)
                /\ TableAndKernelAgree(c)

\* C21 witness: c3, whose fd is its own, is Deleted with its table entry and
\* out of the kernel after OnWriting and OffWriting, while two channels of
\* one fd are both known to the poller.
C21_Witness ==
    /\ ~aborted
    /\ chanOp = <<"OffWriting", "c3">>
    /\ m_status["c3"] = k_Deleted
    /\ m_channels[FdOf("c3")] = "c3"
    /\ ~InKernel(FdOf("c3"))
    /\ Registered("c1") /\ Registered("c2")

(***************************************************************************)
(* Claims about the TimerQueue (checked under SpecTimer)                   *)
(***************************************************************************)

InTimers(id) == \E e \in m_timers : e.id = id

\* C1: if a repeating timer's callback calls cancel(id) on its own TimerID
\* while it runs inside the expiry handler, the timer is not put back into
\* the timer map by the handler's reset step, and its callback is never
\* invoked again.
C1_SelfCancelledNotRearmed ==
    [][\A id \in TimerIds :
          /\ (id \in selfCancelled' /\ hpc' = "idle") =>
                ~(\E e \in m_timers' : e.id = id)
          /\ (id \in selfCancelled /\ hpc = "run" /\ tIdx <= Len(timeout)
                /\ tIdx' = tIdx + 1) => timeout[tIdx] # id
      ]_vars

\* the timerfd's setting that matches a timer map
ArmedFor(map) == IF map = {} THEN {} ELSE {Begin(map).when}

HandlerCompletes == hpc = "run" /\ hpc' = "idle"

\* a repeating timer that the completing handler run re-armed
RearmedByThisRun(id) == IsRepeat(id) /\ m_runtime'[id] # m_runtime[id]

AddedPastInBatch(id) ==
    /\ hpc = "run"
    /\ id \in Owned(m_timers)
    /\ ~IsRepeat(id)
    /\ m_runtime[id] <= now
    /\ id \notin Range(m_cancelledSoon)

\* C15: a one-shot timer added by runAt inside another timer's callback with
\* an expiry at or before the current time is never silently dropped: until
\* it is invoked on the next loop iteration it stays in the timer map, so the
\* handler run that added it completes with the timer still in the map.
C15_PastTimerNotDropped ==
    [][\A id \in TimerIds :
          AddedPastInBatch(id) => id \in Owned(m_timers')]_vars

\* an expiry moved on by whole intervals until arming the timerfd for it no
\* longer fails
RECURSIVE CaughtUp(_, _)
CaughtUp(runtime, interval) ==
    IF ~ResetTimerfdFails(runtime) THEN runtime
    ELSE CaughtUp(runtime + interval, interval)

\* C22: in the expiry handler's rearm step, each time arming the timerfd for
\* the earliest timer fails, exactly that timer is removed from the map if it
\* is one-shot, or re-keyed one interval later (still owned by the map, no
\* null entry left behind) if it is repeating, and arming is retried; the
\* step ends only when arming succeeds or the map is empty, and no other
\* timer is dropped. With map the timer map before the rearm step: the
\* timers for which arming failed are those of map whose expiry has passed,
\* the one-shot ones among them are gone, the repeating ones are in the map
\* under the first expiry, a whole number of intervals later, for which
\* arming succeeds, every other entry is as it was, and the timerfd is armed
\* for the earliest timer left.
C22_RearmDropsOnlyFailed ==
    [][HandlerCompletes =>
          LET r == Reinsert(timeout, m_timers, m_runtime)
              map == EraseCancelled(m_cancelledSoon, r.map, r.rt)
              late == {e \in map : ResetTimerfdFails(e.when)}
          IN  /\ ignored' = {e.id : e \in late}
              /\ m_timers' =
                    (map \ late) \cup
                    {[when |-> CaughtUp(e.when, m_interval[e.id]),
                      id |-> e.id, own |-> TRUE] :
                         e \in {f \in late : IsRepeat(f.id)}}
              /\ \A e \in m_timers' : e.own /\ m_runtime'[e.id] = e.when
              /\ m_timers' # {} =>
                    /\ tfdArmed' = {Begin(m_timers').when}
                    /\ ~ResetTimerfdFails(Begin(m_timers').when)
      ]_vars

\* C22 witness: the last reset() failed to arm the timerfd for a repeating
\* timer, which is in the map, and for a one-shot timer, which is gone.
C22_Witness ==
    /\ tqDone = "handle"
    /\ \E a \in ignored : a \in Owned(m_timers) /\ IsRepeat(a)
    /\ \E b \in ignored : b \notin Owned(m_timers)

\* this step is item->run() of the batch's next timer
RunsCallback == hpc = "run" /\ tIdx <= Len(timeout) /\ tIdx' = tIdx + 1

\* C24: once a cancel(id) has been processed on the loop thread while the
\* callback of timer id is not itself executing, that timer's callback is
\* never invoked afterwards; this includes a timer callback cancelling
\* another timer of the same batch that has not run yet, and one cancelling a
\* repeating timer of the same batch that has already run.
C24_CancelledNeverRuns ==
    [][RunsCallback => timeout[tIdx] \notin cancelled]_vars

(***************************************************************************)
(* Claims about Channel::RunCallback (checked under SpecDispatch)          *)
(***************************************************************************)

\* the fixed order of the callbacks
CallbackOrder == <<"close", "error", "read", "write">>

\* C12: for every ready mask R dispatched on an untied or live-tied channel
\* with all four callbacks set, the callbacks fire each at most once, in the
\* order close, error, read, write: close iff R has HUP without IN, error iff
\* R has ERR, read iff R has any of IN, PRI, RDHUP, write iff R has OUT.
C12_CallbacksByMask ==
    (rpc = "done" /\ hasCallback = Callbacks) =>
        LET R == m_revents
            Due(cb) ==
                CASE cb = "close" -> "HUP" \in R /\ "IN" \notin R
                  [] cb = "error" -> "ERR" \in R
                  [] cb = "read" -> \E b \in {"IN", "PRI", "RDHUP"} : b \in R
                  [] cb = "write" -> "OUT" \in R
        IN  fired = SelectSeq(CallbackOrder, Due)

\* C12 witness: a live-tied channel with all four callbacks was dispatched
\* with HUP, ERR, RDHUP and OUT, and all four callbacks were called.
C12_Witness ==
    /\ rpc = "done"
    /\ hasCallback = Callbacks
    /\ m_tied
    /\ tieAlive
    /\ m_revents = {"HUP", "ERR", "RDHUP", "OUT"}
    /\ fired = CallbackOrder

\* the mask of C13: HUP, readable and writable all set
HupInOut == {"HUP", "IN", "OUT"}

\* C13 as stated: dispatching a ready mask with HUP, IN and OUT all set on a
\* channel with all four callbacks set invokes the callbacks in the order
\* close, read, write, and does not invoke the error callback.
C13_HupInOutClosesFirst ==
    (rpc = "done" /\ hasCallback = Callbacks /\ m_revents = HupInOut) =>
        fired = <<"close", "read", "write">>

\* C13 amended: dispatching a ready mask with HUP, IN and OUT all set on a
\* channel with all four callbacks set invokes the read callback and then
\* the write callback; neither the close callback nor the error callback is
\* invoked.
C13_HupInOutReadsThenWrites ==
    (rpc = "done" /\ hasCallback = Callbacks /\ m_revents = HupInOut) =>
        fired = <<"read", "write">>

\* C13 witness: the dispatch of that mask on a channel with all four
\* callbacks has returned.
C13_Witness ==
    /\ rpc = "done"
    /\ hasCallback = Callbacks
    /\ m_revents = HupInOut
    /\ fired = <<"read", "write">>

(***************************************************************************)
(* Claims about the dispatch of the active channels (checked under         *)
(* SpecActive)                                                             *)
(***************************************************************************)

\* the step in which loop() calls RunCallback on the next active channel
RunCallbackCalled ==
    lpc = "dispatch" /\ actIdx <= Len(m_activeChannels)
        /\ actIdx' = actIdx + 1

\* C23: within one loop iteration a channel is dispatched (RunCallback) only
\* if it is still registered at that moment: a channel of the active list
\* that an earlier callback of the same iteration removed (remove) or
\* disabled (OffAll) is not dispatched in this iteration.
C23_DispatchedOnlyIfRegistered ==
    [][RunCallbackCalled =>
          LET c == m_activeChannels[actIdx] IN
          /\ m_status[c] = k_Added
          /\ kernel[FdOf(c)].ptr = c
          /\ kernel[FdOf(c)].events # k_NoneEvent
      ]_vars

(***************************************************************************)
(* Claims about the thread-local slot (checked under SpecSlot)             *)
(***************************************************************************)

\* the live EventLoops that thread t constructed
LiveOn(t) == {l \in LoopIds : loopState[l] = "alive" /\ m_threadID[l] = t}

\* a step of thread t in EventLoop's constructor or destructor
SlotStep(name, t) == slotVars' # slotVars /\ slotOp' = <<name, t>>

\* C17: at most one live EventLoop exists per OS thread, and the thread's slot
\* points to it (null when the thread has none); constructing an EventLoop
\* on a thread whose slot is occupied is fatal; the slot is set by the
\* construction and cleared by the destruction, after which a new loop can
\* be constructed on the thread.
C17_OneLoopPerThread ==
    /\ [](\A t \in Threads :
            /\ Cardinality(LiveOn(t)) <= 1
            /\ LiveOn(t) = IF t_loopOfThisThread[t] = NoLoop THEN {}
                           ELSE {t_loopOfThisThread[t]})
    /\ [][\A t \in Threads :
            /\ (SlotStep("construct", t) /\ t_loopOfThisThread[t] # NoLoop)
                  => (fatal' /\ loopState' = loopState)
            /\ (SlotStep("construct", t) /\ t_loopOfThisThread[t] = NoLoop)
                  => (~fatal' /\ t_loopOfThisThread'[t] # NoLoop)
            /\ (SlotStep("destroy", t) /\ ~fatal')
                  => t_loopOfThisThread'[t] = NoLoop
            /\ t_loopOfThisThread'[t] # t_loopOfThisThread[t]
                  => (SlotStep("construct", t) \/ SlotStep("destroy", t))
         ]_vars

\* C17 witness: a thread has a live EventLoop that it constructed after its
\* previous EventLoop was destroyed.
C17_Witness ==
    /\ ~fatal
    /\ \E t \in Threads :
          /\ t_loopOfThisThread[t] # NoLoop
          /\ \E l \in LoopIds : loopState[l] = "destroyed" /\ m_threadID[l] = t

(***************************************************************************)
(* Claims about EventLoopThreadPool (checked under SpecPool)               *)
(***************************************************************************)

\* C18: for a started pool with N >= 1 worker loops the k-th call of
\* GetNextLoop (counting from 0) returns loop number k mod N in creation
\* order, and 0 <= m_next < N after every call; with N = 0 every call
\* returns the base loop.
C18_RoundRobin ==
    LET N == Len(m_loops) IN
    /\ (m_started /\ N >= 1) =>
          /\ 0 <= m_next /\ m_next < N
          /\ m_next = calls % N
          /\ calls > 0 => returned = m_loops[((calls - 1) % N) + 1]
          /\ \A i \in 1 .. N : m_loops[i] = i - 1
    /\ (N = 0 /\ calls > 0) => returned = BaseLoop

\* C18 witness: a pool of three worker loops has wrapped around: its fifth
\* call (k = 4) returned loop 1.
C18_Witness ==
    /\ m_started
    /\ Len(m_loops) = 3
    /\ calls = 5
    /\ returned = 1
    /\ m_next = 2

====
